---- MODULE Spec2Model ----
(***************************************************************************)
(* Dependency-driven task scheduler of llm-orchestrator:                   *)
(*   DependencyGraph    (dependency-graph.ts)                              *)
(*   TopologicalSort    (topological-sort.ts)                              *)
(*   DependencyManager  (dependency-manager.ts)                            *)
(*   condition evaluator (condition-evaluator.ts)                          *)
(* and its error recovery:                                                 *)
(*   RetryPolicyManager (retry-policy.ts)                                  *)
(*   ErrorDetector      (error-detector.ts)                                *)
(*   RecoveryManager    (recovery-manager.ts)                              *)
(* and the lock service of its communication backends:                    *)
(*   FileCommunicationBus (file-store.ts), ValkeyBackend, Redlock          *)
(*   (valkey.ts)                                                           *)
(***************************************************************************)
EXTENDS Integers, Sequences, FiniteSets, TLC

VARIABLES
    keys,   \* insertion order of DependencyGraph.nodes (a JS Map iterates in it)
    nodes,  \* DependencyGraph.nodes: id -> DependencyNode
    now,    \* the clock read by Date.now() in updateStatus
    last,   \* the last DependencyManager call and whether it threw
    cev,    \* the last condition-evaluator call: its arguments and its outcome
    rm,     \* the RecoveryManager: its policy, strategy and error histories,
            \* with the call in hand and what it returned
    lk,     \* the lock service: the backend in use, its clock, the lock file,
            \* the lock key, Redlock's timers and the calls made so far
    io      \* the stored files and keys that several calls share (an inbox,
            \* the task list) and the calls in flight on them

vars == <<keys, nodes, now, last, cev, rm, lk, io>>

\* ---------------------------------------------------------------- bounds
MaxDeps == 2     \* longest dependency list handed to areDependenciesReady
MaxEdges == 4    \* dependency entries declared in one graph, all tasks together
MaxClock == 2    \* clock readings available to updateStatus calls
MaxKeywords == 2       \* keywords one error message contains
MaxPolicyRetries == 3  \* largest maxRetries of a retry policy
MaxRetryCount == 4     \* largest retryCount a caller passes
MaxErrors == 3         \* handleError calls between two clearings of the histories
MaxTime == 5     \* last reading of the lock service's clock
MaxCalls == 3    \* lock calls that return
MaxSent == 3     \* messages sent to the agent's inbox
MaxInbox == 6    \* longest inbox the message loop is followed to

\* ---------------------------------------------------------------- TaskStatus
PENDING == "pending"
WAITING == "waiting"
READY == "ready"
IN_PROGRESS == "in_progress"
COMPLETED == "completed"
FAILED == "failed"
SKIPPED == "skipped"

TaskStatus == {PENDING, WAITING, READY, IN_PROGRESS, COMPLETED, FAILED, SKIPPED}

Terminal == {COMPLETED, FAILED, SKIPPED}

\* ---------------------------------------------------------------- dependency references
\* A dependency reference is a bare id (a string) or a ConditionalDependency
\* object {taskId, condition}. Both are records here; `bare` tells them apart.
\* condition is a tagged value: kind "string" with the string in `value`,
\* kind "function" with the predicate's name in `value`, or kind "other"
\* (a number, null, undefined ...).
NoCondition == [kind |-> "none", value |-> "none"]

Bare(id) == [bare |-> TRUE, taskId |-> id, condition |-> NoCondition]

Cond(id, c) == [bare |-> FALSE, taskId |-> id, condition |-> c]

Str(s) == [kind |-> "string", value |-> s]

Fn(f) == [kind |-> "function", value |-> f]

Other == [kind |-> "other", value |-> "42"]

\* sequences over S of length 0..n
SeqUpTo(S, n) == UNION {[1..k -> S] : k \in 0..n}

Range(s) == {s[i] : i \in 1..Len(s)}

\* ---------------------------------------------------------------- DependencyGraph
\* Map.has / Map.get with a dependency reference as the key: the keys of
\* `nodes` are id strings, so a ConditionalDependency object never matches.
Has(ns, dep) == dep.bare /\ dep.taskId \in DOMAIN ns

\* a node whose indegree is not taken from its dependencies
NewNodeNoIndegree(deps, status) ==
    [dependencies |-> deps, status |-> status, dependents |-> <<>>,
     indegree |-> 0, startedAt |-> 0, completedAt |-> 0]

NewNode(deps, status) ==
    [dependencies |-> deps, status |-> status, dependents |-> <<>>,
     indegree |-> Len(deps), startedAt |-> 0, completedAt |-> 0]

\* a back-link that also counts on the dependency's side
LinkOneBumpsIndegree(ns, id, dep) ==
    IF Has(ns, dep)
    THEN [ns EXCEPT ![dep.taskId].dependents = Append(@, id),
                    ![dep.taskId].indegree = @ + 1]
    ELSE ns

\* the back-link of one dependency: pushed only when the dependency is a node
LinkOne(ns, id, dep) ==
    IF Has(ns, dep)
    THEN [ns EXCEPT ![dep.taskId].dependents = Append(@, id)]
    ELSE ns

RECURSIVE LinkDependents(_, _, _, _)
LinkDependents(ns, id, deps, i) ==
    IF i > Len(deps) THEN ns
    ELSE LinkDependents(LinkOne(ns, id, deps[i]), id, deps, i + 1)

\* DependencyGraph.addSubtask on a fresh id: the node map afterwards
AddNode(ns, id, deps, status) ==
    LinkDependents(ns @@ (id :> NewNode(deps, status)), id, deps, 1)

\* an updateStatus that stamps startedAt on every transition into IN_PROGRESS
SetStatusRestamps(ns, id, status, t) ==
    [ns EXCEPT ![id].status = status,
               ![id].startedAt = IF status = IN_PROGRESS THEN t ELSE @,
               ![id].completedAt = IF status \in Terminal THEN t ELSE @]

\* an updateStatus that also skips the direct dependents of a failed or
\* skipped task
SetStatusCascade(ns, id, status, t) ==
    [u \in DOMAIN ns |->
        IF u = id
        THEN [ns[u] EXCEPT !.status = status,
                           !.startedAt = IF status = IN_PROGRESS /\ @ = 0 THEN t ELSE @,
                           !.completedAt = IF status \in Terminal THEN t ELSE @]
        ELSE IF status \in {FAILED, SKIPPED} /\ u \in Range(ns[id].dependents)
        THEN [ns[u] EXCEPT !.status = SKIPPED, !.completedAt = t]
        ELSE ns[u]]

\* DependencyGraph.updateStatus on a registered id, Date.now() = t
SetStatus(ns, id, status, t) ==
    [ns EXCEPT ![id].status = status,
               ![id].startedAt =
                   IF status = IN_PROGRESS /\ @ = 0 THEN t ELSE @,
               ![id].completedAt = IF status \in Terminal THEN t ELSE @]

GetDependents(ns, id) == IF id \in DOMAIN ns THEN ns[id].dependents ELSE <<>>

\* ---- detectCycle: DFS with visited set, recursion stack and path array
\* Array.indexOf, 1-based; 0 stands for JavaScript's -1
IndexOf(s, x) ==
    IF \E i \in 1..Len(s) : s[i] = x
    THEN CHOOSE i \in 1..Len(s) : s[i] = x /\ \A j \in 1..(i - 1) : s[j] # x
    ELSE 0

\* the slice that keeps the lead-in of the path
CycleSliceWhole(path, dep) == path

\* the back edge into the current path: currentPath.slice(indexOf(depId));
\* slice(-1) is the last element
CycleSlice(path, dep) ==
    IF IndexOf(path, dep) = 0
    THEN SubSeq(path, Len(path), Len(path))
    ELSE SubSeq(path, IndexOf(path, dep), Len(path))

RECURSIVE Dfs(_, _, _)
RECURSIVE DfsDeps(_, _, _, _)
Dfs(ns, r, st) ==
    LET st1 == [st EXCEPT !.visited = @ \cup {r},
                          !.stack = @ \cup {r},
                          !.path = Append(@, r)]
        st2 == IF Has(ns, r)
               THEN DfsDeps(ns, ns[r.taskId].dependencies, 1, st1)
               ELSE st1
    IN  IF st2.found THEN st2
        ELSE [st2 EXCEPT !.path = SubSeq(@, 1, Len(@) - 1),
                         !.stack = @ \ {r}]

DfsDeps(ns, deps, i, st) ==
    IF i > Len(deps) THEN st
    ELSE LET d == deps[i] IN
         IF d \notin st.visited
         THEN LET s2 == Dfs(ns, d, st) IN
              IF s2.found THEN s2 ELSE DfsDeps(ns, deps, i + 1, s2)
         ELSE IF d \in st.stack
         THEN [st EXCEPT !.found = TRUE, !.cycle = CycleSlice(st.path, d)]
         ELSE DfsDeps(ns, deps, i + 1, st)

RECURSIVE DetectLoop(_, _, _, _)
DetectLoop(ns, ks, i, st) ==
    IF i > Len(ks) THEN st
    ELSE IF Bare(ks[i]) \in st.visited THEN DetectLoop(ns, ks, i + 1, st)
    ELSE LET s2 == Dfs(ns, Bare(ks[i]), [st EXCEPT !.path = <<>>]) IN
         IF s2.found THEN s2 ELSE DetectLoop(ns, ks, i + 1, s2)

\* CycleResult: hasCycle and, when it is true, the cycle as task ids
DetectCycle(ns, ks) ==
    LET st == DetectLoop(ns, ks, 1,
                  [visited |-> {}, stack |-> {}, path |-> <<>>,
                   found |-> FALSE, cycle |-> <<>>])
    IN  [hasCycle |-> st.found,
         cycle |-> [i \in 1..Len(st.cycle) |-> st.cycle[i].taskId]]

\* ---------------------------------------------------------------- TopologicalSort
\* one dependent of a processed node: decrement, enqueue on reaching 0
RelaxOne(st, d) ==
    LET n == st.indegree[d] - 1 IN
    [st EXCEPT !.indegree[d] = n,
               !.queue = IF n = 0 THEN Append(@, d) ELSE @]

RECURSIVE Relax(_, _, _)
Relax(dependents, j, st) ==
    IF j > Len(dependents) THEN st
    ELSE Relax(dependents, j + 1, RelaxOne(st, dependents[j]))

RECURSIVE ProcessLevel(_, _, _, _)
ProcessLevel(ns, level, i, st) ==
    IF i > Len(level) THEN st
    ELSE ProcessLevel(ns, level, i + 1,
             Relax(ns[level[i]].dependents, 1,
                   [st EXCEPT !.order = Append(@, level[i])]))

\* queue.splice(0, queue.length): the whole queue is the current level
TakeLevel(st) ==
    [st EXCEPT !.queue = <<>>, !.parallelLevels = Append(@, st.queue)]

RECURSIVE SortLoop(_, _)
SortLoop(ns, st) ==
    IF st.queue = <<>> THEN st
    ELSE LET st1 == TakeLevel(st) IN
         SortLoop(ns, ProcessLevel(ns, st1.parallelLevels[Len(st1.parallelLevels)], 1, st1))

\* a sort without the check after the loop
SortNeverThrows(ns, st) == FALSE

\* the check after the loop: every node was emitted
SortThrows(ns, st) == Len(st.order) # Cardinality(DOMAIN ns)

\* TopologicalSort.sort: threw, or {order, parallelLevels}
Sort(ns, ks) ==
    LET queue0 == SelectSeq(ks, LAMBDA id : ns[id].indegree = 0)
        st == SortLoop(ns, [indegree |-> [id \in DOMAIN ns |-> ns[id].indegree],
                            queue |-> queue0, order |-> <<>>,
                            parallelLevels |-> <<>>])
    IN  IF ks = <<>>
        THEN [threw |-> FALSE, order |-> <<>>, parallelLevels |-> <<>>]
        ELSE IF queue0 = <<>> \/ SortThrows(ns, st)
        THEN [threw |-> TRUE, order |-> <<>>, parallelLevels |-> <<>>]
        ELSE [threw |-> FALSE, order |-> st.order,
              parallelLevels |-> st.parallelLevels]

\* a call that throws has no value
GetExecutionOrder(ns, ks) ==
    [threw |-> Sort(ns, ks).threw, value |-> Sort(ns, ks).order]

GetParallelLevels(ns, ks) ==
    [threw |-> Sort(ns, ks).threw, value |-> Sort(ns, ks).parallelLevels]

\* ---------------------------------------------------------------- DAGVisualizer
\* one dependency of a task of the current level: its entry in remaining, when
\* it has one, is decremented
VizDecrement(st, dep) ==
    IF dep.taskId \in Range(st.remaining)
    THEN [st EXCEPT !.indegree[dep.taskId] = @ - 1]
    ELSE st

RECURSIVE VizDeps(_, _, _)
VizDeps(deps, j, st) ==
    IF j > Len(deps) THEN st
    ELSE VizDeps(deps, j + 1, VizDecrement(st, deps[j]))

\* processed.add, remaining.delete and the indegree updates, task by task
RECURSIVE VizProcess(_, _, _, _)
VizProcess(ns, level, i, st) ==
    IF i > Len(level) THEN st
    ELSE VizProcess(ns, level, i + 1,
             VizDeps(ns[level[i]].dependencies, 1,
                     [st EXCEPT !.remaining =
                         SelectSeq(@, LAMBDA id : id # level[i])]))

\* while (remaining.size > 0): the tasks of indegree 0 are the next level; when
\* there is none, the remaining tasks are the last level
RECURSIVE VizLoop(_, _)
VizLoop(ns, st) ==
    IF st.remaining = <<>> THEN st.levels
    ELSE LET currentLevel == SelectSeq(st.remaining, LAMBDA id : st.indegree[id] = 0) IN
         IF currentLevel = <<>> THEN Append(st.levels, st.remaining)
         ELSE VizLoop(ns, VizProcess(ns, currentLevel, 1,
                              [st EXCEPT !.levels = Append(@, currentLevel)]))

\* DAGVisualizer.calculateLevels on the subtasks ks with the dependencies of ns
CalculateLevels(ns, ks) ==
    VizLoop(ns, [remaining |-> ks, levels |-> <<>>,
                 indegree |-> [id \in Range(ks) |-> Len(ns[id].dependencies)]])

\* ---------------------------------------------------------------- DependencyManager
\* a check that lets a dependency without a node pass
DepCompletedOrMissing(ns, dep) == ~Has(ns, dep) \/ ns[dep.taskId].status = COMPLETED

\* dep?.status === COMPLETED for one entry of subtask.dependencies
DepCompleted(ns, dep) == Has(ns, dep) /\ ns[dep.taskId].status = COMPLETED

AllDepsCompleted(ns, id) ==
    \A i \in 1..Len(ns[id].dependencies) : DepCompleted(ns, ns[id].dependencies[i])

\* a readiness test that takes WAITING tasks only
IsReadyWaitingOnly(ns, id) ==
    ns[id].status = WAITING /\ AllDepsCompleted(ns, id)

\* the filter of getReadySubtasks()
IsReady(ns, id) ==
    ns[id].status \in {PENDING, WAITING} /\ AllDepsCompleted(ns, id)

\* getReadySubtasks(): the ids of the returned subtasks, in Map order
GetReadySubtasks(ns, ks) == SelectSeq(ks, LAMBDA id : IsReady(ns, id))

\* the filter of getWaitingSubtasks(): PENDING with a dependency that is not
\* a COMPLETED node
IsWaiting(ns, id) ==
    /\ ns[id].status = PENDING
    /\ \E i \in 1..Len(ns[id].dependencies) : ~DepCompleted(ns, ns[id].dependencies[i])

\* getWaitingSubtasks(): the ids of the returned subtasks, in Map order
GetWaitingSubtasks(ns, ks) == SelectSeq(ks, LAMBDA id : IsWaiting(ns, id))

\* isAllCompleted()
IsAllCompleted(ns, ks) ==
    \A i \in 1..Len(ks) : ns[ks[i]].status = COMPLETED \/ ns[ks[i]].status = SKIPPED

\* getSubtasksByStatus(): the number of subtasks in each status
GetSubtasksByStatus(ns, ks) ==
    [s \in TaskStatus |-> Len(SelectSeq(ks, LAMBDA id : ns[id].status = s))]

\* Math.round(n / d) for n >= 0 and d > 0: halves go up
Round(n, d) == (2 * n + d) \div (2 * d)

\* a summary whose completed count leaves the skipped tasks out
GetExecutionSummaryCompletedOnly(ns, ks) ==
    LET counts == GetSubtasksByStatus(ns, ks)
        total == Len(ks)
        completed == counts[COMPLETED]
    IN  [total |-> total, completed |-> completed, failed |-> counts[FAILED],
         inProgress |-> counts[IN_PROGRESS], waiting |-> counts[WAITING],
         pending |-> counts[PENDING],
         percentage |-> IF total > 0 THEN Round(completed * 100, total) ELSE 0]

\* getExecutionSummary()
GetExecutionSummary(ns, ks) ==
    LET counts == GetSubtasksByStatus(ns, ks)
        total == Len(ks)
        completed == counts[COMPLETED] + counts[SKIPPED]
    IN  [total |-> total, completed |-> completed, failed |-> counts[FAILED],
         inProgress |-> counts[IN_PROGRESS], waiting |-> counts[WAITING],
         pending |-> counts[PENDING],
         percentage |-> IF total > 0 THEN Round(completed * 100, total) ELSE 0]

\* ---------------------------------------------------------------- condition evaluator
\* results a referenced task may carry; "undefined" is a missing result
Results == {"undefined", "high", "low"}

\* the caller-supplied predicate (result) => result.score > 0.8:
\* reading .score of undefined throws a TypeError
ApplyPredicate(f, result) ==
    IF result = "undefined" THEN "throw"
    ELSE IF result = "high" THEN "true" ELSE "false"

Bool(b) == IF b THEN "true" ELSE "false"

NormalizeDependency(dep) ==
    IF dep.bare THEN Cond(dep.taskId, Str("success")) ELSE dep

\* a call of the predicate without try/catch
CatchNothing(r) == r

\* the try/catch around the predicate: an exception becomes false
CatchPredicate(r) == IF r = "throw" THEN "false" ELSE r

\* evaluateCondition whose 'any' leaves SKIPPED out
EvaluateConditionAnyNoSkip(dep, depStatus, depResult) ==
    LET c == dep.condition IN
    IF c.kind = "string"
    THEN CASE c.value = "success" -> Bool(depStatus = COMPLETED)
           [] c.value = "failure" -> Bool(depStatus = FAILED)
           [] c.value = "any" -> Bool(depStatus \in {COMPLETED, FAILED})
           [] OTHER -> "throw"
    ELSE IF c.kind = "function"
    THEN CatchPredicate(ApplyPredicate(c.value, depResult))
    ELSE "throw"

\* evaluateCondition: "true", "false" or "throw"
EvaluateCondition(dep, depStatus, depResult) ==
    LET c == dep.condition IN
    IF c.kind = "string"
    THEN CASE c.value = "success" -> Bool(depStatus = COMPLETED)
           [] c.value = "failure" -> Bool(depStatus = FAILED)
           [] c.value = "any" -> Bool(depStatus \in {COMPLETED, FAILED, SKIPPED})
           [] OTHER -> "throw"
    ELSE IF c.kind = "function"
    THEN CatchPredicate(ApplyPredicate(c.value, depResult))
    ELSE "throw"

\* a guard that only holds back a PENDING referent
NotFinishedPendingOnly(status) == status = PENDING

\* the guard of areDependenciesReady: the referent is not finished
NotFinished(status) == status # COMPLETED /\ status # FAILED /\ status # SKIPPED

RECURSIVE ReadyFrom(_, _, _)
ReadyFrom(deps, getDepStatus, i) ==
    IF i > Len(deps) THEN "true"
    ELSE LET normalized == NormalizeDependency(deps[i])
             depInfo == getDepStatus[normalized.taskId]
         IN  IF NotFinished(depInfo.status) THEN "false"
             ELSE LET e == EvaluateCondition(normalized, depInfo.status, depInfo.result)
                  IN  IF e = "true" THEN ReadyFrom(deps, getDepStatus, i + 1)
                      ELSE e

\* areDependenciesReady: "true", "false" or "throw"
AreDependenciesReady(deps, getDepStatus) == ReadyFrom(deps, getDepStatus, 1)

\* logical not of an outcome, a throw passing through
Not(r) == IF r = "throw" THEN "throw" ELSE Bool(r = "false")

\* isDependencyBlocking(dependency, depStatus, depResult): "true", "false" or
\* "throw"
IsDependencyBlocking(dep, depStatus, depResult) ==
    IF depStatus = COMPLETED \/ depStatus = FAILED \/ depStatus = SKIPPED
    THEN Not(EvaluateCondition(dep, depStatus, depResult))
    ELSE "true"

\* a guard that lets a READY referent through to its condition
StillRunningNoReady(status) ==
    status = IN_PROGRESS \/ status = WAITING \/ status = PENDING

\* the guard of getDependencyBlockageReason: the referent has not finished
StillRunning(status) ==
    status = IN_PROGRESS \/ status = WAITING \/ status = PENDING \/ status = READY

\* `Waiting for task ${taskId} to complete`
WaitingReason(taskId) == "Waiting for task " \o taskId \o " to complete"

\* typeof condition === 'string' ? condition : 'output-based condition'
ConditionStr(c) == IF c.kind = "string" THEN c.value ELSE "output-based condition"

\* `Condition not met: task ${taskId} did not satisfy ${conditionStr}`
ConditionReason(taskId, c) ==
    "Condition not met: task " \o taskId \o " did not satisfy " \o ConditionStr(c)

RECURSIVE ReasonFrom(_, _, _)
ReasonFrom(deps, getDepStatus, i) ==
    IF i > Len(deps) THEN "null"
    ELSE LET normalized == NormalizeDependency(deps[i])
             depInfo == getDepStatus[normalized.taskId]
         IN  IF StillRunning(depInfo.status) THEN WaitingReason(normalized.taskId)
             ELSE LET e == EvaluateCondition(normalized, depInfo.status, depInfo.result)
                  IN  IF e = "throw" THEN "throw"
                      ELSE IF e = "false"
                      THEN ConditionReason(normalized.taskId, normalized.condition)
                      ELSE ReasonFrom(deps, getDepStatus, i + 1)

\* getDependencyBlockageReason: the reason, "null" for null, or "throw"
GetDependencyBlockageReason(deps, getDepStatus) == ReasonFrom(deps, getDepStatus, 1)

\* ---------------------------------------------------------------- RetryPolicyManager
Min(a, b) == IF a <= b THEN a ELSE b

\* Math.pow(2, n) for a whole n >= 0
RECURSIVE Pow2(_)
Pow2(n) == IF n <= 0 THEN 1 ELSE 2 * Pow2(n - 1)

\* RetryPolicyManager.createDefault()
DefaultPolicy ==
    [maxRetries |-> 3, initialDelay |-> 1000, maxDelay |-> 60000,
     backoff |-> "exponential"]

\* the delay before the cap
Backoff(p, retryCount) ==
    CASE p.backoff = "linear" -> p.initialDelay * (retryCount + 1)
      [] p.backoff = "exponential" -> p.initialDelay * Pow2(retryCount)
      [] OTHER -> p.initialDelay

\* calculateDelay without the cap
CalculateDelayUncapped(p, retryCount) ==
    IF retryCount <= 0 THEN [threw |-> FALSE, value |-> p.initialDelay]
    ELSE IF retryCount > p.maxRetries THEN [threw |-> TRUE, value |-> 0]
    ELSE [threw |-> FALSE, value |-> Backoff(p, retryCount)]

\* RetryPolicyManager.calculateDelay(retryCount): the delay, or the throw
CalculateDelay(p, retryCount) ==
    IF retryCount <= 0 THEN [threw |-> FALSE, value |-> p.initialDelay]
    ELSE IF retryCount > p.maxRetries THEN [threw |-> TRUE, value |-> 0]
    ELSE [threw |-> FALSE, value |-> Min(Backoff(p, retryCount), p.maxDelay)]

\* shouldRetry that allows one retry too many
PolicyShouldRetryInclusive(p, retryCount) == retryCount <= p.maxRetries

\* RetryPolicyManager.shouldRetry(retryCount)
PolicyShouldRetry(p, retryCount) == retryCount < p.maxRetries

\* ---------------------------------------------------------------- ErrorDetector
\* An error message is the set of keywords it contains and whether it is
\* written in capitals ("ECONNRESET") or not ("Disk full" counts as not: the
\* detector lowers it before it looks).
Keywords ==
    {"econnreset", "etimedout", "econnrefused", "timeout", "timed out",
     "rate limit", "fatal", "critical", "disk full", "out of memory",
     "permission denied", "access denied", "security"}

\* message.toLowerCase()
ToLowerCase(m) == [m EXCEPT !.upper = FALSE]

\* message.includes(w) for a lower-case w
Includes(m, w) == w \in m.words /\ ~m.upper

\* isRecoverable that takes every error for recoverable
IsRecoverableAlways(error) == TRUE

\* ErrorDetector.isRecoverable(error)
IsRecoverable(error) ==
    LET message == ToLowerCase(error) IN
    IF \/ Includes(message, "econnreset")
       \/ Includes(message, "etimedout")
       \/ Includes(message, "econnrefused")
    THEN TRUE
    ELSE IF Includes(message, "timeout") \/ Includes(message, "timed out")
    THEN TRUE
    ELSE IF Includes(message, "rate limit")
    THEN TRUE
    ELSE FALSE

\* getSeverity that looks for the high keywords first
GetSeverityHighFirst(error) ==
    LET message == ToLowerCase(error) IN
    IF \/ Includes(message, "critical")
       \/ Includes(message, "permission denied")
       \/ Includes(message, "access denied")
       \/ Includes(message, "security")
    THEN "high"
    ELSE IF \/ Includes(message, "fatal")
            \/ Includes(message, "disk full")
            \/ Includes(message, "out of memory")
    THEN "critical"
    ELSE IF Includes(message, "timeout") \/ Includes(message, "rate limit")
    THEN "medium"
    ELSE "low"

\* ErrorDetector.getSeverity(error)
GetSeverity(error) ==
    LET message == ToLowerCase(error) IN
    IF \/ Includes(message, "fatal")
       \/ Includes(message, "critical")
       \/ Includes(message, "disk full")
       \/ Includes(message, "out of memory")
    THEN "critical"
    ELSE IF \/ Includes(message, "critical")
            \/ Includes(message, "permission denied")
            \/ Includes(message, "access denied")
            \/ Includes(message, "security")
    THEN "high"
    ELSE IF Includes(message, "timeout") \/ Includes(message, "rate limit")
    THEN "medium"
    ELSE "low"

\* ---------------------------------------------------------------- RecoveryManager
\* delay of a result that carries none
NoDelay == -1

\* an ErrorHandlerResult, or the throw of the call
Result(type, retry, delay) ==
    [type |-> type, shouldRetry |-> retry, delay |-> delay, threw |-> FALSE]

Thrown == [type |-> "none", shouldRetry |-> FALSE, delay |-> NoDelay, threw |-> TRUE]

\* determineAction that lets the strategy decide a critical error too
DetermineActionByStrategyOnly(strategy, errorInfo) ==
    CASE strategy = "continue" -> Result("skip", FALSE, NoDelay)
      [] strategy = "stop" -> Result("manual_intervention", FALSE, NoDelay)
      [] strategy = "ask" -> Result("manual_intervention", FALSE, NoDelay)
      [] OTHER -> Result("skip", FALSE, NoDelay)

\* RecoveryManager.determineAction(errorInfo)
DetermineAction(strategy, errorInfo) ==
    IF GetSeverity(errorInfo.error) = "critical"
    THEN Result("manual_intervention", FALSE, NoDelay)
    ELSE CASE strategy = "continue" -> Result("skip", FALSE, NoDelay)
           [] strategy = "stop" -> Result("manual_intervention", FALSE, NoDelay)
           [] strategy = "ask" -> Result("manual_intervention", FALSE, NoDelay)
           [] OTHER -> Result("skip", FALSE, NoDelay)

\* RecoveryManager.shouldRetry(errorInfo)
ShouldRetry(p, errorInfo) ==
    IF ~IsRecoverable(errorInfo.error) THEN FALSE
    ELSE PolicyShouldRetry(p, errorInfo.retryCount)

\* errorHistory.get(subtaskId) || []
GetErrorHistory(h, subtaskId) == IF subtaskId \in DOMAIN h THEN h[subtaskId] ELSE <<>>

\* recordError that keeps the newest error of a subtask only
RecordErrorLatestOnly(h, errorInfo) ==
    [s \in DOMAIN h \cup {errorInfo.subtaskId} |->
        IF s = errorInfo.subtaskId THEN <<errorInfo>> ELSE h[s]]

\* RecoveryManager.recordError(errorInfo)
RecordError(h, errorInfo) ==
    [s \in DOMAIN h \cup {errorInfo.subtaskId} |->
        IF s = errorInfo.subtaskId
        THEN Append(GetErrorHistory(h, errorInfo.subtaskId), errorInfo)
        ELSE h[s]]

\* what handleError returns once the error is recorded
HandleErrorResult(p, strategy, errorInfo) ==
    IF ShouldRetry(p, errorInfo)
    THEN LET delay == CalculateDelay(p, errorInfo.retryCount) IN
         IF delay.threw THEN Thrown ELSE Result("retry", TRUE, delay.value)
    ELSE DetermineAction(strategy, errorInfo)

\* the number of records in the sequence xs whose field is v
RECURSIVE CountBy(_, _, _)
CountBy(xs, field, v) ==
    IF xs = <<>> THEN 0
    ELSE (IF Head(xs)[field] = v THEN 1 ELSE 0) + CountBy(Tail(xs), field, v)

\* all recorded errors, history after history
RECURSIVE AllErrors(_, _)
AllErrors(h, S) ==
    IF S = {} THEN <<>>
    ELSE LET s == CHOOSE x \in S : TRUE IN h[s] \o AllErrors(h, S \ {s})

\* RecoveryManager.getStatistics(): a Map holds the keys that were counted
GetStatistics(h) ==
    LET errors == AllErrors(h, DOMAIN h) IN
    [totalErrors |-> Len(errors),
     errorsBySubtask |->
         [s \in {errors[i].subtaskId : i \in 1..Len(errors)} |->
             CountBy(errors, "subtaskId", s)],
     errorsByAgent |->
         [a \in {errors[i].agentId : i \in 1..Len(errors)} |->
             CountBy(errors, "agentId", a)]]

\* ---------------------------------------------------------------- inputs
\* ids and dependency lists of the graph specification
GraphIds == {"A", "B", "C"}

GraphDepLists(n) == SeqUpTo({Bare(id) : id \in GraphIds}, n)

\* task declarations of the manager specification: the diamond
\* A, B(A), C(A), D(B,C) and a conditional variant of B
TaskIds == {"A", "B", "C", "D"}

Declarations ==
    {<<"A", <<>>>>,
     <<"B", <<Bare("A")>>>>,
     <<"B", <<Cond("A", Str("failure"))>>>>,
     <<"C", <<Bare("A")>>>>,
     <<"D", <<Bare("B"), Bare("C")>>>>}

\* inputs of the condition evaluator
CondIds == {"X", "Y"}

Conditions ==
    {Str("success"), Str("failure"), Str("any"), Str("bogus"),
     Fn("scoreHigh"), Other}

CondRefs ==
    {Bare(id) : id \in CondIds} \cup {Cond(id, c) : id \in CondIds, c \in Conditions}

\* status lookups; every referent carries the same result
Lookups ==
    {[id \in CondIds |-> [status |-> f[id], result |-> r]] :
        f \in [CondIds -> TaskStatus], r \in Results}

\* ---------------------------------------------------------------- state machine
NoCall == [op |-> "none", id |-> "none", threw |-> FALSE]

\* ---- recovery inputs
SubtaskIds == {"task1", "task2"}

AgentIds == {"agent0", "agent1"}

Strategies == {"continue", "stop", "ask"}

Messages ==
    {[words |-> W, upper |-> u] :
        W \in {S \in SUBSET Keywords : Cardinality(S) <= MaxKeywords}, u \in BOOLEAN}

\* new Error('ECONNRESET'), new Error('Disk full') and an error without keyword
RecoveryMessages ==
    {[words |-> {"econnreset"}, upper |-> TRUE],
     [words |-> {"disk full"}, upper |-> FALSE],
     [words |-> {}, upper |-> FALSE]}

Policies ==
    [maxRetries : 0..MaxPolicyRetries, initialDelay : {1000, 6000},
     maxDelay : {5000, 60000}, backoff : {"linear", "exponential"}]

\* ErrorDetector.createErrorInfo(subtaskId, agentId, error, retryCount)
CreateErrorInfo(subtaskId, agentId, error, retryCount) ==
    [subtaskId |-> subtaskId, agentId |-> agentId, error |-> error,
     retryCount |-> retryCount]

NoInfo == CreateErrorInfo("none", "none", [words |-> {}, upper |-> FALSE], 0)

NoResult == [type |-> "none", shouldRetry |-> FALSE, delay |-> NoDelay, threw |-> FALSE]

\* new RecoveryManager(RetryPolicyManager.createDefault()): nothing recorded,
\* nothing called
NoRecovery ==
    [policy |-> DefaultPolicy, strategy |-> "continue",
     errorHistory |-> [s \in {} |-> <<>>],
     handled |-> [s \in SubtaskIds |-> 0],
     call |-> [fn |-> "none", info |-> NoInfo, pending |-> FALSE],
     result |-> NoResult, attempt |-> 0]

NoEval ==
    [fn |-> "none", deps |-> <<>>,
     lookup |-> [id \in CondIds |-> [status |-> PENDING, result |-> "undefined"]],
     out |-> "none"]

\* ---------------------------------------------------------------- locks
\* A string is its sequence of tokens, ':' being a token of its own, so that
\* concatenation, equality, prefix tests and split(':') are computed.
Colon == ":"

\* `${holder}:`
HolderPrefix(holder) == holder \o <<Colon>>

\* value.startsWith(prefix); string.sub(value, 1, #prefix) == prefix
StartsWith(value, prefix) ==
    Len(prefix) <= Len(value) /\ SubSeq(value, 1, Len(prefix)) = prefix

\* value.split(':')[0]
SplitFirst(value) ==
    LET colons == {i \in 1..Len(value) : value[i] = Colon} IN
    IF colons = {} THEN value
    ELSE SubSeq(value, 1, (CHOOSE i \in colons : \A j \in colons : i <= j) - 1)

\* ---- FileCommunicationBus: one lock file per resource
NoFile == [exists |-> FALSE, holder |-> <<>>, acquiredAt |-> 0]

\* FileCommunicationBus.releaseLock(resource, agentId)
FileRelease(file, agentId) ==
    IF file.exists /\ file.holder = agentId THEN NoFile ELSE file

\* FileCommunicationBus.acquireLockInternal(resource, agentId, timeout) at
\* Date.now() = t
FileAcquire(file, agentId, timeout, t) ==
    IF file.exists /\ ~(t - file.acquiredAt > timeout)
    THEN [file |-> file, ok |-> FALSE]
    ELSE [file |-> [exists |-> TRUE, holder |-> agentId, acquiredAt |-> t],
          ok |-> TRUE]

\* ---- the lock key of a Valkey server: a value with an expiry
NoKey == [exists |-> FALSE, value |-> <<>>, expiresAt |-> 0]

\* whether GET finds the key at time t
Live(key, t) == key.exists /\ t < key.expiresAt

\* SET key value PX ttl NX
SetNxPx(key, value, ttl, t) ==
    IF Live(key, t)
    THEN [key |-> key, ok |-> FALSE]
    ELSE [key |-> [exists |-> TRUE, value |-> value, expiresAt |-> t + ttl],
          ok |-> TRUE]

\* ---- ValkeyBackend without Redlock
\* `${holder}:${Date.now()}`
BasicLockValue(holder, t) == holder \o <<Colon, ToString(t)>>

\* the release script: if redis.call("get", KEYS[1]) == ARGV[1] then del
BasicRelease(key, holder, t) ==
    IF Live(key, t) /\ key.value = HolderPrefix(holder) THEN NoKey ELSE key

\* ---- Redlock over the backend's single client
\* `${holder}:${Date.now()}:${random}`
RedlockValue(holder, t, rnd) == holder \o <<Colon, ToString(t), Colon, rnd>>

\* Math.floor(driftFactor * ttl) + 2 with the default driftFactor 0.01
Drift(ttl) == (ttl \div 100) + 2

\* ttl - elapsedTime - drift, the calls to the server taking no time
ValidityTime(ttl) == ttl - 0 - Drift(ttl)

\* setupAutomaticExtension(resource, lockValue, ttl): the timer kept under the
\* key is cleared and a new one set to fire after floor(ttl * 0.5)
SetupAutomaticExtension(timers, lockValue, ttl, t) ==
    {x \in timers : ~(x.key = lockValue /\ x.mapped)}
        \cup {[key |-> lockValue, ttl |-> ttl, due |-> t + (ttl \div 2), mapped |-> TRUE]}

\* extensionTimers.delete(key): the timer stays armed, out of reach of clearTimeout
ForgetTimer(timers, timerKey) ==
    {[x EXCEPT !.mapped = (x.mapped /\ x.key # timerKey)] : x \in timers}

\* unlockInternal(resource, lockValuePrefix)
UnlockInternal(key, timers, lockValuePrefix, t) ==
    LET deleted == Live(key, t) /\ StartsWith(key.value, lockValuePrefix) IN
    [key |-> IF deleted THEN NoKey ELSE key,
     timers |-> {x \in timers : ~(x.key = lockValuePrefix /\ x.mapped)},
     ok |-> deleted]

\* extendLock(resource, holder, ttl)
ExtendLock(key, timers, holder, ttl, t) ==
    LET matched == Live(key, t) /\ StartsWith(key.value, HolderPrefix(holder))
        extended == IF matched THEN [key EXCEPT !.expiresAt = t + ttl] ELSE key
    IN  IF matched /\ ValidityTime(ttl) > 0
        THEN [key |-> extended,
              timers |-> SetupAutomaticExtension(timers, HolderPrefix(holder), ttl, t),
              ok |-> TRUE]
        ELSE [key |-> extended, timers |-> timers, ok |-> FALSE]

\* Redlock.isLockedBy(resource, holder)
IsLockedBy(key, holder, t) == Live(key, t) /\ StartsWith(key.value, HolderPrefix(holder))

\* one round of the loop of Redlock.acquireLock
RedlockAttempt(key, timers, lockValue, ttl, t) ==
    LET set == SetNxPx(key, lockValue, ttl, t) IN
    IF set.ok /\ ValidityTime(ttl) > 0
    THEN [key |-> set.key,
          timers |-> SetupAutomaticExtension(timers, lockValue, ttl, t),
          ok |-> TRUE]
    ELSE LET u == UnlockInternal(set.key, timers, lockValue, t) IN
         [key |-> u.key, timers |-> u.timers, ok |-> FALSE]

\* ---- the lock service as its callers see it
Backends == {"file", "valkey", "redlock"}

\* holder ids: "h", "g" and "h:x", of which "h" is a prefix
Holders == {<<"h">>, <<"g">>, <<"h", Colon, "x">>}

Ttls == {3, 5}

\* Math.random().toString(36).substr(2, 9): a suffix no earlier call drew
Nonce(n) == "k" \o ToString(n)

\* options.retryCount and options.retryDelay of the Redlock in use
RetryCounts == {1, 2}

RetryDelay == 1

NoHolder == <<>>

NoOwner == [held |-> FALSE, holder |-> NoHolder, ttl |-> 0, since |-> 0]

NoLockCall == [op |-> "none", holder |-> NoHolder, ttl |-> 0, ok |-> FALSE]

NoPend == [active |-> FALSE, holder |-> NoHolder, ttl |-> 0, value |-> <<>>,
           attempts |-> 0, wake |-> 0]

\* a backend just constructed: no lock file, no key, no timer, nothing called
NoLocks ==
    [backend |-> "file", retryCount |-> 1, time |-> 0,
     file |-> NoFile, key |-> NoKey, timers |-> {}, pend |-> NoPend,
     calls |-> 0, call |-> NoLockCall, owner |-> NoOwner, freed |-> FALSE]

\* ---- what calls in flight share
\* nothing stored, no call in flight
NoInbox == [exists |-> FALSE, messages |-> <<>>]

NoRead == [taken |-> FALSE, after |-> 0, messages |-> <<>>]

NoLoop == [pc |-> "readMessages", messages |-> <<>>, i |-> 1]

NoIo == [inbox |-> NoInbox, tasks |-> <<>>, procs |-> <<>>, free |-> FALSE,
         overlap |-> FALSE, out |-> NoRead, loop |-> NoLoop, handled |-> <<>>,
         sent |-> 0]

Init ==
    /\ keys = <<>>
    /\ nodes = [id \in {} |-> NewNode(<<>>, PENDING)]
    /\ now = 1
    /\ last = NoCall
    /\ lk = NoLocks
    /\ io = NoIo
    /\ cev = NoEval
    /\ rm = NoRecovery

\* dependency entries declared so far
RECURSIVE EdgeCount(_, _)
EdgeCount(ns, ks) ==
    IF ks = <<>> THEN 0 ELSE ns[Head(ks)].indegree + EdgeCount(ns, Tail(ks))

\* addSubtask that accepts a registered id without a word
AddSubtaskSilent(id, deps, status) ==
    /\ IF id \in DOMAIN nodes
       THEN /\ last' = [op |-> "addSubtask", id |-> id, threw |-> FALSE]
            /\ UNCHANGED <<keys, nodes>>
       ELSE /\ nodes' = AddNode(nodes, id, deps, status)
            /\ keys' = Append(keys, id)
            /\ last' = [op |-> "addSubtask", id |-> id, threw |-> FALSE]
    /\ UNCHANGED <<now, cev, rm, lk, io>>

\* DependencyManager.addSubtask(subtask)
AddSubtask(id, deps, status) ==
    /\ IF id \in DOMAIN nodes
       THEN /\ last' = [op |-> "addSubtask", id |-> "none", threw |-> TRUE]
            /\ UNCHANGED <<keys, nodes>>
       ELSE /\ nodes' = AddNode(nodes, id, deps, status)
            /\ keys' = Append(keys, id)
            /\ last' = [op |-> "addSubtask", id |-> id, threw |-> FALSE]
    /\ UNCHANGED <<now, cev, rm, lk, io>>

\* updateStatus that ignores an id it does not know
UpdateStatusSilent(id, status) ==
    /\ now <= MaxClock
    /\ IF id \notin DOMAIN nodes
       THEN /\ last' = [op |-> "updateStatus", id |-> id, threw |-> FALSE]
            /\ UNCHANGED <<nodes, now>>
       ELSE /\ nodes' = SetStatus(nodes, id, status, now)
            /\ now' = now + 1
            /\ last' = [op |-> "updateStatus", id |-> id, threw |-> FALSE]
    /\ UNCHANGED <<keys, cev, rm, lk, io>>

\* DependencyManager.updateStatus(subtaskId, status)
UpdateStatus(id, status) ==
    /\ now <= MaxClock
    /\ IF id \notin DOMAIN nodes
       THEN /\ last' = [op |-> "updateStatus", id |-> "none", threw |-> TRUE]
            /\ UNCHANGED <<nodes, now>>
       ELSE /\ nodes' = SetStatus(nodes, id, status, now)
            /\ now' = now + 1
            /\ last' = [op |-> "updateStatus", id |-> id, threw |-> FALSE]
    /\ UNCHANGED <<keys, cev, rm, lk, io>>

MarkCompleted(id) == UpdateStatus(id, COMPLETED)

MarkFailed(id) == UpdateStatus(id, FAILED)

MarkSkipped(id) == UpdateStatus(id, SKIPPED)

\* DependencyManager.clear()
Clear ==
    /\ keys # <<>>
    /\ keys' = <<>>
    /\ nodes' = [id \in {} |-> NewNode(<<>>, PENDING)]
    /\ last' = [op |-> "clear", id |-> "none", threw |-> FALSE]
    /\ UNCHANGED <<now, cev, rm, lk, io>>

\* the manager's queries
Queries ==
    {"getReadySubtasks", "getWaitingSubtasks", "getExecutionOrder",
     "getParallelLevels", "detectCycle", "getExecutionSummary", "getSubtaskStatus"}

\* whether a query throws: the two sorts do on a graph they cannot exhaust
QueryThrows(ns, ks, q) ==
    q \in {"getExecutionOrder", "getParallelLevels"} /\ Sort(ns, ks).threw

\* a sort that counts down the stored indegrees instead of a map of its own
QuerySortsInPlace(ns, ks, q) ==
    IF q \in {"getExecutionOrder", "getParallelLevels"}
    THEN [id \in DOMAIN ns |->
             IF id \in Range(Sort(ns, ks).order)
             THEN [ns[id] EXCEPT !.indegree = 0] ELSE ns[id]]
    ELSE ns

\* a query that promotes the tasks it reports ready
QueryPromotesReady(ns, ks, q) ==
    IF q = "getReadySubtasks"
    THEN [id \in DOMAIN ns |->
             IF id \in Range(GetReadySubtasks(ns, ks))
             THEN [ns[id] EXCEPT !.status = READY] ELSE ns[id]]
    ELSE ns

\* the node map a query leaves behind: the queries filter and map copies of
\* the subtask list, the sort counts down an indegree map of its own, and none
\* of them assigns to a node
QueryEffect(ns, ks, q) == ns

\* one query of the manager
Query(q) ==
    /\ nodes' = QueryEffect(nodes, keys, q)
    /\ last' = [op |-> q, id |-> "none", threw |-> QueryThrows(nodes, keys, q)]
    /\ UNCHANGED <<keys, now, cev, rm, lk, io>>

\* evaluateCondition(dependency, depStatus, depResult) on the pending arguments
EvaluateConditionCall ==
    /\ cev.fn = "evaluateCondition" /\ cev.out = "none"
    /\ cev' = [cev EXCEPT !.out =
                  EvaluateCondition(cev.deps[1], cev.lookup[cev.deps[1].taskId].status,
                                    cev.lookup[cev.deps[1].taskId].result)]
    /\ UNCHANGED <<keys, nodes, now, last, rm, lk, io>>

\* areDependenciesReady(dependencies, getDepStatus) on the pending arguments
AreDependenciesReadyCall ==
    /\ cev.fn = "areDependenciesReady" /\ cev.out = "none"
    /\ cev' = [cev EXCEPT !.out = AreDependenciesReady(cev.deps, cev.lookup)]
    /\ UNCHANGED <<keys, nodes, now, last, rm, lk, io>>

\* ---- the manager driven by its caller
Next ==
    \/ \E d \in Declarations : AddSubtask(d[1], d[2], PENDING)
    \/ \E id \in TaskIds, s \in TaskStatus \ Terminal : UpdateStatus(id, s)
    \/ \E id \in TaskIds : MarkCompleted(id)
    \/ \E id \in TaskIds : MarkFailed(id)
    \/ \E id \in TaskIds : MarkSkipped(id)
    \/ Clear

Spec == Init /\ [][Next]_vars

\* ---- the manager under updates interleaved with queries
QueryIds == {"A", "B", "C"}

NextQuery ==
    \/ \E d \in {e \in Declarations : e[1] \in QueryIds} : AddSubtask(d[1], d[2], PENDING)
    \/ \E id \in QueryIds, s \in TaskStatus : UpdateStatus(id, s)
    \/ \E q \in Queries : Query(q)

SpecQuery == Init /\ [][NextQuery]_vars

\* ---- the graph under arbitrary bare-id dependency lists
NextGraph ==
    \/ \E id \in GraphIds, deps \in GraphDepLists(MaxEdges - EdgeCount(nodes, keys)) :
           AddSubtask(id, deps, PENDING)
    \/ Clear

SpecGraph == Init /\ [][NextGraph]_vars

\* ---- the condition evaluator: the arguments are drawn by the initial state
InitCond ==
    /\ keys = <<>>
    /\ nodes = [id \in {} |-> NewNode(<<>>, PENDING)]
    /\ now = 1
    /\ last = NoCall
    /\ lk = NoLocks
    /\ io = NoIo
    /\ rm = NoRecovery
    /\ \/ \E dep \in CondRefs, l \in Lookups :
              cev = [fn |-> "evaluateCondition", deps |-> <<dep>>,
                     lookup |-> l, out |-> "none"]
       \/ \E deps \in SeqUpTo(CondRefs, MaxDeps), l \in Lookups :
              cev = [fn |-> "areDependenciesReady", deps |-> deps,
                     lookup |-> l, out |-> "none"]
       \/ \E deps \in SeqUpTo(CondRefs, MaxDeps), l \in Lookups :
              cev = [fn |-> "getDependencyBlockageReason", deps |-> deps,
                     lookup |-> l, out |-> "none"]
       \/ \E dep \in CondRefs, l \in Lookups :
              cev = [fn |-> "isDependencyBlocking",
                     deps |-> <<NormalizeDependency(dep)>>,
                     lookup |-> l, out |-> "none"]

\* getDependencyBlockageReason(dependencies, getDepStatus) on the pending
\* arguments
GetDependencyBlockageReasonCall ==
    /\ cev.fn = "getDependencyBlockageReason" /\ cev.out = "none"
    /\ cev' = [cev EXCEPT !.out = GetDependencyBlockageReason(cev.deps, cev.lookup)]
    /\ UNCHANGED <<keys, nodes, now, last, rm, lk, io>>

\* isDependencyBlocking(dependency, depStatus, depResult) on the pending
\* arguments
IsDependencyBlockingCall ==
    /\ cev.fn = "isDependencyBlocking" /\ cev.out = "none"
    /\ cev' = [cev EXCEPT !.out =
                  IsDependencyBlocking(cev.deps[1], cev.lookup[cev.deps[1].taskId].status,
                                       cev.lookup[cev.deps[1].taskId].result)]
    /\ UNCHANGED <<keys, nodes, now, last, rm, lk, io>>

NextCond ==
    \/ EvaluateConditionCall
    \/ AreDependenciesReadyCall
    \/ GetDependencyBlockageReasonCall
    \/ IsDependencyBlockingCall

SpecCond == InitCond /\ [][NextCond]_vars

\* ---- the recovery manager
\* the manager after handleError(errorInfo): the error is recorded first, the
\* result comes after; handled counts the calls per subtask since its history
\* was last cleared
AfterHandleError(r, errorInfo) ==
    [r EXCEPT !.errorHistory = RecordError(@, errorInfo),
              !.handled[errorInfo.subtaskId] = @ + 1,
              !.call = [fn |-> "handleError", info |-> errorInfo, pending |-> FALSE],
              !.result = HandleErrorResult(r.policy, r.strategy, errorInfo)]

\* RecoveryManager.handleError(errorInfo)
HandleError(errorInfo) ==
    /\ rm' = AfterHandleError(rm, errorInfo)
    /\ UNCHANGED <<keys, nodes, now, last, cev, lk, io>>

\* RecoveryManager.clearErrorHistory(subtaskId)
ClearErrorHistory(subtaskId) ==
    /\ subtaskId \in DOMAIN rm.errorHistory
    /\ rm' = [rm EXCEPT !.errorHistory = [s \in DOMAIN @ \ {subtaskId} |-> @[s]],
                        !.handled[subtaskId] = 0,
                        !.call = [fn |-> "clearErrorHistory", info |-> NoInfo,
                                  pending |-> FALSE],
                        !.result = NoResult]
    /\ UNCHANGED <<keys, nodes, now, last, cev, lk, io>>

\* RecoveryManager.clearAllErrorHistory()
ClearAllErrorHistory ==
    /\ DOMAIN rm.errorHistory # {}
    /\ rm' = [rm EXCEPT !.errorHistory = [s \in {} |-> <<>>],
                        !.handled = [s \in SubtaskIds |-> 0],
                        !.call = [fn |-> "clearAllErrorHistory", info |-> NoInfo,
                                  pending |-> FALSE],
                        !.result = NoResult]
    /\ UNCHANGED <<keys, nodes, now, last, cev, lk, io>>

RECURSIVE SumOver(_, _)
SumOver(f, S) ==
    IF S = {} THEN 0
    ELSE LET s == CHOOSE x \in S : TRUE IN f[s] + SumOver(f, S \ {s})

RecoveryInfos ==
    {CreateErrorInfo(s, a, e, n) :
        s \in SubtaskIds, a \in AgentIds, e \in RecoveryMessages, n \in {0, MaxRetryCount}}

NextRecovery ==
    \/ \E errorInfo \in RecoveryInfos :
           /\ SumOver(rm.handled, SubtaskIds) < MaxErrors
           /\ HandleError(errorInfo)
    \/ \E s \in SubtaskIds : ClearErrorHistory(s)
    \/ ClearAllErrorHistory

SpecRecovery == Init /\ [][NextRecovery]_vars

\* ---- single calls of handleError and calculateDelay: the manager and the
\* arguments are drawn by the initial state
InitHandle ==
    /\ keys = <<>>
    /\ nodes = [id \in {} |-> NewNode(<<>>, PENDING)]
    /\ now = 1
    /\ last = NoCall
    /\ lk = NoLocks
    /\ io = NoIo
    /\ cev = NoEval
    /\ \/ \E p \in Policies, st \in Strategies, e \in Messages,
             n \in -1..MaxRetryCount :
              rm = [NoRecovery EXCEPT
                       !.policy = p, !.strategy = st,
                       !.call = [fn |-> "handleError",
                                 info |-> CreateErrorInfo("task1", "agent1", e, n),
                                 pending |-> TRUE]]
       \/ \E p \in Policies, n \in -1..MaxRetryCount :
              rm = [NoRecovery EXCEPT
                       !.policy = p,
                       !.call = [fn |-> "calculateDelay",
                                 info |-> [NoInfo EXCEPT !.retryCount = n],
                                 pending |-> TRUE]]
       \/ \E e \in Messages :
              rm = [NoRecovery EXCEPT
                       !.call = [fn |-> "getSeverity",
                                 info |-> [NoInfo EXCEPT !.error = e],
                                 pending |-> TRUE]]

\* handleError on the pending arguments
HandleErrorCall ==
    /\ rm.call.fn = "handleError" /\ rm.call.pending
    /\ HandleError(rm.call.info)

\* retryPolicy.calculateDelay(retryCount) on the pending argument
CalculateDelayCall ==
    /\ rm.call.fn = "calculateDelay" /\ rm.call.pending
    /\ rm' = [rm EXCEPT
                 !.call.pending = FALSE,
                 !.result = LET d == CalculateDelay(rm.policy, rm.call.info.retryCount)
                            IN  IF d.threw THEN Thrown
                                ELSE Result("delay", FALSE, d.value)]
    /\ UNCHANGED <<keys, nodes, now, last, cev, lk, io>>

\* errorDetector.getSeverity(error) on the pending argument
GetSeverityCall ==
    /\ rm.call.fn = "getSeverity" /\ rm.call.pending
    /\ rm' = [rm EXCEPT
                 !.call.pending = FALSE,
                 !.result = Result(GetSeverity(rm.call.info.error), FALSE, NoDelay)]
    /\ UNCHANGED <<keys, nodes, now, last, cev, lk, io>>

NextHandle ==
    \/ HandleErrorCall
    \/ CalculateDelayCall
    \/ GetSeverityCall

SpecHandle == InitHandle /\ [][NextHandle]_vars

\* ---- the caller's retry loop on one task whose every attempt fails with the
\* same recoverable error: retryCount counts the attempts made so far, and the
\* loop goes on as long as handleError answers retry
RecoverableMessages == {e \in Messages : IsRecoverable(e)}

InitRetryLoop ==
    /\ keys = <<>>
    /\ nodes = [id \in {} |-> NewNode(<<>>, PENDING)]
    /\ now = 1
    /\ last = NoCall
    /\ lk = NoLocks
    /\ io = NoIo
    /\ cev = NoEval
    /\ \E p \in Policies, st \in Strategies, e \in RecoverableMessages :
           rm = [NoRecovery EXCEPT
                    !.policy = p, !.strategy = st,
                    !.call = [fn |-> "handleError",
                              info |-> CreateErrorInfo("task1", "agent1", e, 0),
                              pending |-> TRUE]]

RetryAttempt ==
    /\ rm.attempt = 0 \/ rm.result.type = "retry"
    /\ rm.attempt <= MaxRetryCount
    /\ rm' = [AfterHandleError(rm, [rm.call.info EXCEPT !.retryCount = rm.attempt])
                 EXCEPT !.attempt = @ + 1]
    /\ UNCHANGED <<keys, nodes, now, last, cev, lk, io>>

NextRetryLoop == RetryAttempt

SpecRetryLoop == InitRetryLoop /\ [][NextRetryLoop]_vars

\* ================================================================ properties
\* the ids a task declares as dependencies (by taskId)
DepIds(ns, t) == {ns[t].dependencies[i].taskId : i \in 1..Len(ns[t].dependencies)}

\* the bare ids a task declares as dependencies
PlainDepIds(ns, t) ==
    {ns[t].dependencies[i].taskId :
        i \in {j \in 1..Len(ns[t].dependencies) : ns[t].dependencies[j].bare}}

\* tasks reachable from S along dependency edges in at most n steps (S excluded
\* unless reached)
RECURSIVE ReachIn(_, _, _)
ReachIn(ns, S, n) ==
    IF n = 0 THEN {}
    ELSE LET step == UNION {DepIds(ns, t) : t \in S \cap DOMAIN ns}
         IN  step \cup ReachIn(ns, step, n - 1)

Reaches(ns, t) == ReachIn(ns, {t}, Cardinality(DOMAIN ns))

HasDirectedCycle(ns) == \E t \in DOMAIN ns : t \in Reaches(ns, t)

AllDepsRegistered(ns) == \A t \in DOMAIN ns : DepIds(ns, t) \subseteq DOMAIN ns

Pos(s, x) == IndexOf(s, x)

IsPermutationOf(s, S) ==
    /\ Len(s) = Cardinality(S)
    /\ Range(s) = S

RECURSIVE Flatten(_)
Flatten(ss) == IF ss = <<>> THEN <<>> ELSE Head(ss) \o Flatten(Tail(ss))

\* ---- C1: for every acyclic set of tasks whose dependencies are all
\* registered, whatever the order they were added in, getExecutionOrder()
\* returns a permutation of all task ids in which every dependency comes
\* before each task that depends on it.
C1_TopologicalValidity ==
    (~HasDirectedCycle(nodes) /\ AllDepsRegistered(nodes)) =>
        LET r == GetExecutionOrder(nodes, keys) IN
        /\ ~r.threw
        /\ IsPermutationOf(r.value, DOMAIN nodes)
        /\ \A t \in DOMAIN nodes : \A d \in DepIds(nodes, t) :
               Pos(r.value, d) < Pos(r.value, t)

\* ---- C2: whenever getParallelLevels() returns, its levels concatenated in
\* order equal getExecutionOrder(), and no two ids of one level are joined by
\* a direct dependency edge.
C2_LevelCorrectness ==
    LET lv == GetParallelLevels(nodes, keys)
        ord == GetExecutionOrder(nodes, keys)
    IN  ~lv.threw =>
            /\ ~ord.threw
            /\ Flatten(lv.value) = ord.value
            /\ \A i \in 1..Len(lv.value) :
                   \A a \in Range(lv.value[i]), b \in Range(lv.value[i]) :
                       a \notin DepIds(nodes, b)

\* a sort that returned at least two levels, one of them with two tasks
C2_Witness ==
    LET lv == GetParallelLevels(nodes, keys) IN
    /\ ~lv.threw
    /\ Len(lv.value) >= 2
    /\ \E i \in 1..Len(lv.value) : Len(lv.value[i]) >= 2

\* ---- C3: if the dependency graph contains a cycle, getExecutionOrder() and
\* getParallelLevels() both throw; neither returns an order or a level list.
C3_CycleThrows ==
    HasDirectedCycle(nodes) =>
        /\ GetExecutionOrder(nodes, keys).threw
        /\ GetParallelLevels(nodes, keys).threw

\* a cyclic graph that also has a task without dependencies: the sort starts,
\* emits that task and fails on the check after the loop
C3_Witness ==
    /\ HasDirectedCycle(nodes)
    /\ \E t \in DOMAIN nodes : nodes[t].indegree = 0
    /\ GetExecutionOrder(nodes, keys).threw

\* ---- C4: detectCycle() returns hasCycle = true exactly when the dependency
\* edges contain a directed cycle (any component, a self-dependency included);
\* the returned cycle is a sequence of distinct task ids, each depending on
\* the next and the last on the first; for A->B->C->A it has length 3 and is
\* exactly {A, B, C}.
IsCycleOf(ns, c) ==
    /\ Len(c) >= 1
    /\ Range(c) \subseteq DOMAIN ns
    /\ \A i, j \in 1..Len(c) : i # j => c[i] # c[j]
    /\ \A i \in 1..(Len(c) - 1) : c[i + 1] \in DepIds(ns, c[i])
    /\ c[1] \in DepIds(ns, c[Len(c)])

IsTriangle(ns) ==
    /\ DOMAIN ns = {"A", "B", "C"}
    /\ DepIds(ns, "A") = {"B"}
    /\ DepIds(ns, "B") = {"C"}
    /\ DepIds(ns, "C") = {"A"}

Evaluated == cev.fn = "evaluateCondition" /\ cev.out # "none"

ReadyChecked == cev.fn = "areDependenciesReady" /\ cev.out # "none"

EvDep == cev.deps[1]

EvStatus == cev.lookup[EvDep.taskId].status

EvResult == cev.lookup[EvDep.taskId].result

\* a condition the documentation allows: success, failure, any or a function
WellFormed(c) ==
    \/ c.kind = "string" /\ c.value \in {"success", "failure", "any"}
    \/ c.kind = "function"

\* what a condition demands of a finished referent
ConditionHolds(c, status, result) ==
    \/ c.kind = "string" /\ c.value = "success" /\ status = COMPLETED
    \/ c.kind = "string" /\ c.value = "failure" /\ status = FAILED
    \/ c.kind = "string" /\ c.value = "any" /\ status \in Terminal
    \/ c.kind = "function" /\ ApplyPredicate(c.value, result) = "true"

\* the condition of a dependency reference, a bare id standing for success
ConditionOf(dep) == IF dep.bare THEN Str("success") ELSE dep.condition

Satisfied(dep, l) ==
    /\ l[dep.taskId].status \in Terminal
    /\ ConditionHolds(ConditionOf(dep), l[dep.taskId].status, l[dep.taskId].result)

\* ---- C6: areDependenciesReady(deps, lookup) is true iff every dependency's
\* referent is in a terminal status and its condition evaluates true on it; a
\* dependency whose referent is PENDING, WAITING, READY or IN_PROGRESS makes
\* the result false whatever its condition (success, failure, any, predicate).
C6_ReadyIffAllSatisfied ==
    ReadyChecked =>
        /\ cev.out = "true" <=>
               \A i \in 1..Len(cev.deps) : Satisfied(cev.deps[i], cev.lookup)
        /\ (\E i \in 1..Len(cev.deps) :
               cev.lookup[cev.deps[i].taskId].status \notin Terminal) =>
               /\ cev.out # "true"
               /\ (\A i \in 1..Len(cev.deps) : WellFormed(ConditionOf(cev.deps[i])))
                      => cev.out = "false"

\* a predicate that would accept, held back by an unfinished referent that
\* comes after a satisfied dependency
C6_Witness ==
    /\ ReadyChecked
    /\ Len(cev.deps) = 2
    /\ Satisfied(cev.deps[1], cev.lookup)
    /\ cev.deps[2].condition.kind = "function"
    /\ cev.lookup[cev.deps[2].taskId].status = IN_PROGRESS
    /\ cev.lookup[cev.deps[2].taskId].result = "high"
    /\ cev.out = "false"

\* ---- C7: with a string condition evaluateCondition returns: success iff
\* the status is COMPLETED, failure iff FAILED, any iff COMPLETED, FAILED or
\* SKIPPED; a condition that is neither one of these strings nor a function
\* makes it throw.
C7_StringConditions ==
    Evaluated =>
        LET c == EvDep.condition IN
        /\ (c.kind = "string" /\ c.value = "success") =>
               cev.out = Bool(EvStatus = COMPLETED)
        /\ (c.kind = "string" /\ c.value = "failure") =>
               cev.out = Bool(EvStatus = FAILED)
        /\ (c.kind = "string" /\ c.value = "any") =>
               cev.out = Bool(EvStatus \in {COMPLETED, FAILED, SKIPPED})
        /\ ~WellFormed(c) => cev.out = "throw"

\* 'any' evaluated on a SKIPPED referent
C7_Witness ==
    /\ Evaluated
    /\ EvDep.condition = Str("any")
    /\ EvStatus = SKIPPED
    /\ cev.out = "true"

\* ---- C8: when a caller-supplied predicate throws, evaluateCondition returns
\* false instead of propagating, so areDependenciesReady reports the
\* dependency as not satisfied and never throws because of a predicate.
ThrowingPredicate(dep, l) ==
    /\ dep.condition.kind = "function"
    /\ ApplyPredicate(dep.condition.value, l[dep.taskId].result) = "throw"

C8_PredicateThrowIsFalse ==
    /\ (Evaluated /\ ThrowingPredicate(EvDep, cev.lookup)) => cev.out = "false"
    /\ (ReadyChecked
        /\ \A i \in 1..Len(cev.deps) : WellFormed(ConditionOf(cev.deps[i]))) =>
           /\ cev.out # "throw"
           /\ (\E i \in 1..Len(cev.deps) : ThrowingPredicate(cev.deps[i], cev.lookup))
                  => cev.out = "false"

\* a throwing predicate on a finished referent, reached after a satisfied
\* dependency
C8_Witness ==
    /\ ReadyChecked
    /\ Len(cev.deps) = 2
    /\ Satisfied(cev.deps[1], cev.lookup)
    /\ ThrowingPredicate(cev.deps[2], cev.lookup)
    /\ cev.lookup[cev.deps[2].taskId].status = COMPLETED
    /\ cev.out = "false"

\* ---- the manager's readiness query
ReadySet == Range(GetReadySubtasks(nodes, keys))

\* readiness as areDependenciesReady defines it, the lookup being the graph:
\* every dependency has a registered referent in a terminal status that
\* satisfies its condition
DepsReadyByCondition(ns, id) ==
    \A i \in 1..Len(ns[id].dependencies) :
        LET dep == ns[id].dependencies[i] IN
        /\ dep.taskId \in DOMAIN ns
        /\ ns[dep.taskId].status \in Terminal
        /\ ConditionHolds(ConditionOf(dep), ns[dep.taskId].status, "undefined")

\* ---- C5: getReadySubtasks() returns exactly the tasks whose status is
\* PENDING or WAITING and whose dependencies are ready in the sense of
\* areDependenciesReady; in particular a task depending on {X, failure} is
\* returned once X is FAILED.
C5_ReadyByConditions ==
    ReadySet = {id \in DOMAIN nodes :
                   /\ nodes[id].status \in {PENDING, WAITING}
                   /\ DepsReadyByCondition(nodes, id)}

\* ---- C9: after any sequence of addSubtask, updateStatus and mark* calls a
\* task is in getReadySubtasks() only if its status is PENDING or WAITING and
\* every one of its plain dependencies is a registered task whose status is
\* COMPLETED; in the diamond A, B(A), C(A), D(B,C) the ready set is exactly
\* {B, C} right after A is marked completed.
IsDiamond(ns) ==
    /\ DOMAIN ns = {"A", "B", "C", "D"}
    /\ ns["A"].dependencies = <<>>
    /\ ns["B"].dependencies = <<Bare("A")>>
    /\ ns["C"].dependencies = <<Bare("A")>>
    /\ ns["D"].dependencies = <<Bare("B"), Bare("C")>>

DiamondAfterACompleted ==
    /\ IsDiamond(nodes)
    /\ last = [op |-> "updateStatus", id |-> "A", threw |-> FALSE]
    /\ nodes["A"].status = COMPLETED
    /\ \A t \in {"B", "C", "D"} : nodes[t].status = PENDING

C9_ReadyOnlyIfDepsCompleted ==
    /\ \A t \in ReadySet :
           /\ nodes[t].status \in {PENDING, WAITING}
           /\ \A d \in PlainDepIds(nodes, t) :
                  d \in DOMAIN nodes /\ nodes[d].status = COMPLETED
    /\ DiamondAfterACompleted => ReadySet = {"B", "C"}

C9_Witness == DiamondAfterACompleted /\ ReadySet = {"B", "C"}

\* ---- C10: no cascading cancellation: markFailed(t) or markSkipped(t)
\* changes the status of t only, no dependent is marked SKIPPED or FAILED
\* automatically, and a dependent with a plain dependency on t is never
\* reported by getReadySubtasks() while t stays FAILED or SKIPPED.
C10_BlockedWhileFailed ==
    \A t \in DOMAIN nodes : nodes[t].status \in {FAILED, SKIPPED} =>
        \A u \in DOMAIN nodes : t \in PlainDepIds(nodes, u) => u \notin ReadySet

C10_OnlyTargetChanges ==
    \A u \in DOMAIN nodes \cap DOMAIN nodes' :
        nodes'[u].status # nodes[u].status =>
            last' = [op |-> "updateStatus", id |-> u, threw |-> FALSE]

C10_NoCascade == [][C10_OnlyTargetChanges]_vars /\ []C10_BlockedWhileFailed

\* a task just marked FAILED whose dependent is still PENDING and not ready
C10_Witness ==
    \E t \in DOMAIN nodes, u \in DOMAIN nodes :
        /\ last = [op |-> "updateStatus", id |-> t, threw |-> FALSE]
        /\ nodes[t].status = FAILED
        /\ Range(nodes[t].dependents) = {u}
        /\ t \in PlainDepIds(nodes, u)
        /\ nodes[u].status = PENDING
        /\ u \notin ReadySet

\* ---- C11: the scheduler never changes a status on its own: no query
\* (getReadySubtasks, getWaitingSubtasks, getExecutionOrder, getParallelLevels,
\* detectCycle, getExecutionSummary, getSubtaskStatus) modifies a task's status
\* or timestamps, and a status changes only through updateStatus or a mark*
\* call naming that task, which leaves every other task unchanged.
Stamp(n) == <<n.status, n.startedAt, n.completedAt>>

C11_WriterIsNamedUpdate ==
    /\ \A u \in DOMAIN nodes \cap DOMAIN nodes' :
           Stamp(nodes'[u]) # Stamp(nodes[u]) =>
               last' = [op |-> "updateStatus", id |-> u, threw |-> FALSE]
    /\ last'.op \in Queries => nodes' = nodes

C11_OnlyCallerWrites == [][C11_WriterIsNamedUpdate]_vars

\* a query answered while a task is ready and another is running
C11_Witness ==
    /\ last.op = "getReadySubtasks"
    /\ ReadySet # {}
    /\ \E t \in DOMAIN nodes : nodes[t].status = IN_PROGRESS

\* ---- C12: addSubtask with an id that is already registered throws and
\* leaves the graph exactly as it was: the existing task, its status, its
\* indegree and every dependents list are unchanged and size() is unchanged.
C12_DuplicateStep ==
    \A d \in Declarations :
        (d[1] \in DOMAIN nodes /\ AddSubtask(d[1], d[2], PENDING)) =>
            /\ last' = [op |-> "addSubtask", id |-> "none", threw |-> TRUE]
            /\ nodes' = nodes
            /\ keys' = keys

C12_DuplicateRejected == [][C12_DuplicateStep]_vars

\* a rejected addSubtask on a graph whose tasks have dependents and a status
\* other than the initial one
C12_Witness ==
    /\ last = [op |-> "addSubtask", id |-> "none", threw |-> TRUE]
    /\ \E t \in DOMAIN nodes : nodes[t].dependents # <<>> /\ nodes[t].status = COMPLETED

\* ---- C13: updateStatus (and markCompleted / markFailed / markSkipped) on an
\* id that is not registered throws and changes no task's status or
\* timestamps.
C13_UnknownStep ==
    \A id \in TaskIds : \A s \in TaskStatus :
        (id \notin DOMAIN nodes /\ UpdateStatus(id, s)) =>
            /\ last' = [op |-> "updateStatus", id |-> "none", threw |-> TRUE]
            /\ nodes' = nodes

C13_UnknownRejected == [][C13_UnknownStep]_vars

\* a rejected update on a graph that holds a task already stamped
C13_Witness ==
    /\ last = [op |-> "updateStatus", id |-> "none", threw |-> TRUE]
    /\ \E t \in DOMAIN nodes : nodes[t].startedAt # 0

\* ---- the recovery manager's calls
HandleReturned == rm.call.fn = "handleError" /\ ~rm.call.pending

DelayReturned == rm.call.fn = "calculateDelay" /\ ~rm.call.pending

\* the documented classes of errors, by the keywords a message contains in
\* whatever case
Recoverable(e) ==
    e.words \cap {"econnreset", "etimedout", "econnrefused", "timeout",
                  "timed out", "rate limit"} # {}

Critical(e) == e.words \cap {"fatal", "critical", "disk full", "out of memory"} # {}

\* ---- C14: handleError returns {action: retry, shouldRetry: true, delay:
\* calculateDelay(retryCount)} exactly when the error is recoverable and
\* errorInfo.retryCount < maxRetries; for every other input shouldRetry is
\* false and the action is not retry, so an unrecoverable (unknown) error is
\* never retried whatever its retryCount.
C14_RetryExactlyWhen ==
    HandleReturned =>
        LET info == rm.call.info IN
        IF Recoverable(info.error) /\ info.retryCount < rm.policy.maxRetries
        THEN LET d == CalculateDelay(rm.policy, info.retryCount) IN
             /\ ~d.threw
             /\ rm.result = Result("retry", TRUE, d.value)
        ELSE /\ ~rm.result.shouldRetry
             /\ rm.result.type # "retry"

\* an error without any keyword, well within the retry budget, not retried
C14_Witness ==
    /\ HandleReturned
    /\ rm.call.info.error.words = {}
    /\ rm.call.info.retryCount = 0
    /\ rm.policy.maxRetries = MaxPolicyRetries
    /\ rm.result.type = "skip"
    /\ ~rm.result.shouldRetry

\* ---- C15: when handleError does not retry, the action depends only on
\* severity and strategy: a CRITICAL error yields manual_intervention under
\* every strategy (continue, stop, ask); otherwise strategy continue yields
\* skip and strategies stop and ask yield manual_intervention; shouldRetry is
\* false in all these cases.
C15_ActionBySeverityAndStrategy ==
    (HandleReturned /\ rm.result.type # "retry") =>
        /\ ~rm.result.shouldRetry
        /\ rm.result.type =
               IF Critical(rm.call.info.error) THEN "manual_intervention"
               ELSE IF rm.strategy = "continue" THEN "skip"
               ELSE "manual_intervention"

\* a critical error under strategy continue
C15_Witness ==
    /\ HandleReturned
    /\ rm.strategy = "continue"
    /\ rm.call.info.error = [words |-> {"disk full"}, upper |-> FALSE]
    /\ rm.result.type = "manual_intervention"

\* ---- C16: calculateDelay(retryCount) returns a delay for every integer
\* retryCount (no input is rejected): initialDelay when retryCount <= 0,
\* otherwise min(maxDelay, initialDelay * (retryCount + 1)) for linear backoff
\* and min(maxDelay, initialDelay * 2^retryCount) for exponential backoff.
DocumentedDelay(p, n) ==
    IF n <= 0 THEN p.initialDelay
    ELSE IF p.backoff = "linear" THEN Min(p.maxDelay, p.initialDelay * (n + 1))
    ELSE Min(p.maxDelay, p.initialDelay * (2 ^ n))

C16_DelayForEveryCount ==
    DelayReturned =>
        /\ ~rm.result.threw
        /\ rm.result.delay = DocumentedDelay(rm.policy, rm.call.info.retryCount)

\* C16 as amended: calculateDelay(retryCount) returns the documented delay for
\* every integer retryCount <= max(0, maxRetries) and throws for every larger
\* one.
C16_DelayUpToMaxRetries ==
    DelayReturned =>
        LET n == rm.call.info.retryCount IN
        IF n > 0 /\ n > rm.policy.maxRetries
        THEN rm.result.threw
        ELSE /\ ~rm.result.threw
             /\ rm.result.delay = DocumentedDelay(rm.policy, n)

\* the cap at work: calculateDelay(3) with initialDelay 1000, exponential
\* backoff and maxDelay 5000 is 5000, not 8000
C16_Witness ==
    /\ DelayReturned
    /\ rm.call.info.retryCount = 3
    /\ rm.policy.initialDelay = 1000 /\ rm.policy.backoff = "exponential"
    /\ rm.policy.maxDelay = 5000
    /\ rm.result.delay = 5000

\* ---- C17: for every retry policy (including one whose initialDelay is
\* larger than maxDelay) and every retryCount, the delay returned by
\* calculateDelay, and therefore the delay field of every handleError result,
\* never exceeds maxDelay.
C17_DelayNeverExceedsMax ==
    ((HandleReturned \/ DelayReturned) /\ rm.result.delay # NoDelay) =>
        rm.result.delay <= rm.policy.maxDelay

\* ---- C18: every handleError call appends its ErrorInfo to the history of
\* errorInfo.subtaskId whatever action it returns; at any time
\* getStatistics().totalErrors equals the number of handleError calls made
\* since the histories were last cleared, and both the per-subtask counts and
\* the per-agent counts sum to totalErrors.
C18_HistoryCountsEveryCall ==
    LET stats == GetStatistics(rm.errorHistory) IN
    /\ \A s \in SubtaskIds : Len(GetErrorHistory(rm.errorHistory, s)) = rm.handled[s]
    /\ HandleReturned =>
           LET h == GetErrorHistory(rm.errorHistory, rm.call.info.subtaskId)
           IN  Len(h) >= 1 /\ h[Len(h)] = rm.call.info
    /\ stats.totalErrors = SumOver(rm.handled, SubtaskIds)
    /\ SumOver(stats.errorsBySubtask, DOMAIN stats.errorsBySubtask) = stats.totalErrors
    /\ SumOver(stats.errorsByAgent, DOMAIN stats.errorsByAgent) = stats.totalErrors

\* a second error of one subtask recorded by a call that did not retry, while
\* another subtask has a history of its own
C18_Witness ==
    /\ HandleReturned
    /\ rm.result.type = "manual_intervention"
    /\ Len(GetErrorHistory(rm.errorHistory, rm.call.info.subtaskId)) = 2
    /\ Cardinality(DOMAIN rm.errorHistory) = 2
    /\ GetStatistics(rm.errorHistory).totalErrors = 3

\* ---- C19: retry handling terminates: for a task whose every attempt fails
\* with a recoverable error, when the caller passes retryCount = 0, 1, 2, ...
\* on successive handleError calls, handleError never throws, returns action
\* retry for exactly the first maxRetries calls and returns a non-retry action
\* (skip or manual_intervention) on the next one; handleError itself never
\* changes errorInfo.retryCount.
C19_RetryTerminates ==
    rm.attempt >= 1 =>
        LET k == rm.attempt
            h == GetErrorHistory(rm.errorHistory, rm.call.info.subtaskId)
        IN  /\ ~rm.result.threw
            /\ k <= rm.policy.maxRetries => rm.result.type = "retry"
            /\ k > rm.policy.maxRetries =>
                   /\ k = rm.policy.maxRetries + 1
                   /\ rm.result.type \in {"skip", "manual_intervention"}
            /\ rm.call.info.retryCount = k - 1
            /\ Len(h) = k
            /\ \A i \in 1..k : h[i].retryCount = i - 1

\* the retries of the largest budget used up: the call after them answers skip
C19_Witness ==
    /\ rm.attempt = MaxPolicyRetries + 1
    /\ rm.policy.maxRetries = MaxPolicyRetries
    /\ rm.result.type = "skip"

\* ---- the dispatch loop: the caller registers an acyclic task set whose
\* dependencies are all registered, every task PENDING, then keeps taking a
\* task from getReadySubtasks(), marks it IN_PROGRESS and later COMPLETED
RECURSIVE Register(_, _, _)
Register(ns, ks, deps) ==
    IF ks = <<>> THEN ns
    ELSE Register(AddNode(ns, Head(ks), deps[Head(ks)], PENDING), Tail(ks), deps)

\* the orders in which one to three tasks are registered
DispatchOrders ==
    {ks \in SeqUpTo(GraphIds, Cardinality(GraphIds)) :
        Len(ks) >= 1 /\ \A i, j \in 1..Len(ks) : i # j => ks[i] # ks[j]}

InitDispatch ==
    /\ now = 1
    /\ last = NoCall
    /\ lk = NoLocks
    /\ io = NoIo
    /\ cev = NoEval
    /\ rm = NoRecovery
    /\ \E ks \in DispatchOrders :
           \E deps \in [Range(ks) -> GraphDepLists(MaxDeps)] :
               LET ns == Register([id \in {} |-> NewNode(<<>>, PENDING)], ks, deps) IN
               /\ EdgeCount(ns, ks) <= MaxEdges
               /\ ~HasDirectedCycle(ns)
               /\ AllDepsRegistered(ns)
               /\ keys = ks
               /\ nodes = ns

\* the dispatcher takes t from getReadySubtasks() and starts it
Dispatch(t) ==
    /\ t \in Range(GetReadySubtasks(nodes, keys))
    /\ nodes' = SetStatus(nodes, t, IN_PROGRESS, now)
    /\ now' = now + 1
    /\ last' = [op |-> "updateStatus", id |-> t, threw |-> FALSE]
    /\ UNCHANGED <<keys, cev, rm, lk, io>>

\* the dispatcher reports a started task as completed
Complete(t) ==
    /\ t \in DOMAIN nodes
    /\ nodes[t].status = IN_PROGRESS
    /\ nodes' = SetStatus(nodes, t, COMPLETED, now)
    /\ now' = now + 1
    /\ last' = [op |-> "updateStatus", id |-> t, threw |-> FALSE]
    /\ UNCHANGED <<keys, cev, rm, lk, io>>

NextDispatch ==
    \/ \E t \in GraphIds : Dispatch(t)
    \/ \E t \in GraphIds : Complete(t)

\* the dispatcher keeps going while there is something it can do
SpecDispatch == InitDispatch /\ [][NextDispatch]_vars /\ WF_vars(NextDispatch)

\* ---- the lock service: calls by any holder, the clock, Redlock's timers
\* what a returned call leaves behind: the call itself, who was last granted
\* the lock, and whether that holder has released it since
AfterLockCall(l, op, holder, ttl, ok) ==
    [l EXCEPT
        !.calls = @ + 1,
        !.call = [op |-> op, holder |-> holder, ttl |-> ttl, ok |-> ok],
        !.owner = IF op = "acquireLock" /\ ok
                  THEN [held |-> TRUE, holder |-> holder, ttl |-> ttl, since |-> l.time]
                  ELSE IF op = "releaseLock" /\ @.held /\ @.holder = holder
                  THEN NoOwner
                  ELSE @,
        !.freed = IF op = "isLockedBy" THEN @
                  ELSE op = "releaseLock"
                       /\ (@ \/ (l.owner.held /\ l.owner.holder = holder))]

\* one round of a Redlock acquisition and what follows it: the grant, the
\* wait before the next round, or null after retryCount rounds
RedlockRound(l, holder, ttl, lockValue, attempts) ==
    LET a == RedlockAttempt(l.key, l.timers, lockValue, ttl, l.time)
        after == [l EXCEPT !.key = a.key, !.timers = a.timers, !.pend = NoPend]
    IN  IF a.ok
        THEN AfterLockCall(after, "acquireLock", holder, ttl, TRUE)
        ELSE IF attempts + 1 < l.retryCount
        THEN [after EXCEPT !.pend = [active |-> TRUE, holder |-> holder, ttl |-> ttl,
                                     value |-> lockValue, attempts |-> attempts + 1,
                                     wake |-> l.time + RetryDelay]]
        ELSE AfterLockCall(after, "acquireLock", holder, ttl, FALSE)

\* acquireLock(resource, holder, ttl) of the backend in use
AcquireLock(holder, ttl) ==
    /\ lk.calls < MaxCalls
    /\ ~lk.pend.active
    /\ \/ /\ lk.backend = "file"
          /\ LET r == FileAcquire(lk.file, holder, ttl, lk.time) IN
             lk' = AfterLockCall([lk EXCEPT !.file = r.file],
                                 "acquireLock", holder, ttl, r.ok)
       \/ /\ lk.backend = "valkey"
          /\ LET r == SetNxPx(lk.key, BasicLockValue(holder, lk.time), ttl, lk.time) IN
             lk' = AfterLockCall([lk EXCEPT !.key = r.key],
                                 "acquireLock", holder, ttl, r.ok)
       \/ /\ lk.backend = "redlock"
          /\ lk' = RedlockRound(lk, holder, ttl,
                                RedlockValue(holder, lk.time, Nonce(lk.calls)), 0)
    /\ UNCHANGED <<keys, nodes, now, last, cev, rm, io>>

\* the next round of a Redlock acquisition, once its wait is over
RedlockRetry ==
    /\ lk.pend.active
    /\ lk.time >= lk.pend.wake
    /\ lk' = RedlockRound(lk, lk.pend.holder, lk.pend.ttl, lk.pend.value,
                          lk.pend.attempts)
    /\ UNCHANGED <<keys, nodes, now, last, cev, rm, io>>

\* releaseLock(resource, holder) of the backend in use
ReleaseLock(holder) ==
    /\ lk.calls < MaxCalls
    /\ \/ /\ lk.backend = "file"
          /\ lk' = AfterLockCall([lk EXCEPT !.file = FileRelease(@, holder)],
                                 "releaseLock", holder, 0, TRUE)
       \/ /\ lk.backend = "valkey"
          /\ lk' = AfterLockCall([lk EXCEPT !.key = BasicRelease(@, holder, lk.time)],
                                 "releaseLock", holder, 0, TRUE)
       \/ /\ lk.backend = "redlock"
          /\ LET u == UnlockInternal(lk.key, lk.timers, HolderPrefix(holder), lk.time) IN
             lk' = AfterLockCall([lk EXCEPT !.key = u.key, !.timers = u.timers],
                                 "releaseLock", holder, 0, u.ok)
    /\ UNCHANGED <<keys, nodes, now, last, cev, rm, io>>

\* redlock.isLockedBy(resource, holder)
IsLockedByCall(holder) ==
    /\ lk.calls < MaxCalls
    /\ lk.backend = "redlock"
    /\ lk' = AfterLockCall(lk, "isLockedBy", holder, 0,
                           IsLockedBy(lk.key, holder, lk.time))
    /\ UNCHANGED <<keys, nodes, now, last, cev, rm, io>>

\* an extension timer fires, on time or late
ExtensionTimer ==
    /\ \E x \in lk.timers :
           /\ x.due <= lk.time
           /\ LET rest == lk.timers \ {x}
                  e == ExtendLock(lk.key, rest, SplitFirst(x.key), x.ttl, lk.time)
              IN  lk' = [lk EXCEPT
                            !.key = e.key,
                            !.timers = IF e.ok THEN e.timers
                                       ELSE ForgetTimer(e.timers, x.key)]
    /\ UNCHANGED <<keys, nodes, now, last, cev, rm, io>>

\* a millisecond passes
Tick ==
    /\ lk.time < MaxTime
    /\ lk' = [lk EXCEPT !.time = @ + 1]
    /\ UNCHANGED <<keys, nodes, now, last, cev, rm, io>>

InitLock ==
    /\ keys = <<>>
    /\ nodes = [id \in {} |-> NewNode(<<>>, PENDING)]
    /\ now = 1
    /\ last = NoCall
    /\ cev = NoEval
    /\ rm = NoRecovery
    /\ io = NoIo
    /\ \E b \in Backends, n \in RetryCounts :
           /\ b # "redlock" => n = 1
           /\ lk = [NoLocks EXCEPT !.backend = b, !.retryCount = n]

NextLock ==
    \/ \E holder \in Holders, ttl \in Ttls : AcquireLock(holder, ttl)
    \/ RedlockRetry
    \/ \E holder \in Holders : ReleaseLock(holder)
    \/ \E holder \in Holders : IsLockedByCall(holder)
    \/ ExtensionTimer
    \/ Tick

SpecLock == InitLock /\ [][NextLock]_vars

\* ---- two callers of FileCommunicationBus.acquireLock on one resource, each
\* call advancing from one file-system operation to the next
RaceCallers == {<<"h">>, <<"g">>}

StaleLock == [exists |-> TRUE, holder |-> <<"old">>, acquiredAt |-> 0]

\* a call that has not begun
NoProc(ttl) == [pc |-> "call", ttl |-> ttl, now |-> 0, seen |-> NoFile, ret |-> "none"]

InFlight(pr) == pr.pc \notin {"call", "done"}

Returns(pr, ret) == [pr EXCEPT !.pc = "done", !.ret = ret]

\* acquireLockInternal up to its first await: Date.now() and existsSync
AcqExists(c) ==
    /\ io.procs[c].pc = "call"
    /\ io' = [io EXCEPT
                 !.procs[c] = [@ EXCEPT !.now = lk.time,
                                        !.pc = IF lk.file.exists THEN "readFile"
                                               ELSE "writeFile"],
                 !.free = IF \A d \in RaceCallers : io.procs[d].pc = "call"
                          THEN ~lk.file.exists ELSE @,
                 !.overlap = @ \/ \E d \in RaceCallers \ {c} : InFlight(io.procs[d])]
    /\ UNCHANGED <<keys, nodes, now, last, cev, rm, lk>>

\* await fs.readFile(lockPath): a missing file rejects the call; a lock that
\* has not expired answers false
AcqRead(c) ==
    /\ io.procs[c].pc = "readFile"
    /\ LET pr == io.procs[c] IN
       io' = [io EXCEPT !.procs[c] =
                 IF ~lk.file.exists THEN Returns(pr, "throw")
                 ELSE IF pr.now - lk.file.acquiredAt > pr.ttl
                 THEN [pr EXCEPT !.seen = lk.file, !.pc = "relExists"]
                 ELSE Returns(pr, "false")]
    /\ UNCHANGED <<keys, nodes, now, last, cev, rm, lk>>

\* releaseLock(resource, lock.holder): existsSync
RelExists(c) ==
    /\ io.procs[c].pc = "relExists"
    /\ io' = [io EXCEPT !.procs[c].pc = IF lk.file.exists THEN "relRead" ELSE "writeFile"]
    /\ UNCHANGED <<keys, nodes, now, last, cev, rm, lk>>

\* releaseLock: await fs.readFile and the comparison of the holder
RelRead(c) ==
    /\ io.procs[c].pc = "relRead"
    /\ LET pr == io.procs[c] IN
       io' = [io EXCEPT !.procs[c] =
                 IF ~lk.file.exists THEN Returns(pr, "throw")
                 ELSE IF lk.file.holder = pr.seen.holder
                 THEN [pr EXCEPT !.pc = "unlink"]
                 ELSE [pr EXCEPT !.pc = "writeFile"]]
    /\ UNCHANGED <<keys, nodes, now, last, cev, rm, lk>>

\* releaseLock: await fs.unlink(lockPath)
RelUnlink(c) ==
    /\ io.procs[c].pc = "unlink"
    /\ IF lk.file.exists
       THEN /\ lk' = [lk EXCEPT !.file = NoFile]
            /\ io' = [io EXCEPT !.procs[c].pc = "writeFile"]
       ELSE /\ io' = [io EXCEPT !.procs[c] = Returns(@, "throw")]
            /\ UNCHANGED lk
    /\ UNCHANGED <<keys, nodes, now, last, cev, rm>>

\* await fs.writeFile(lockPath, {holder, acquiredAt: now}); return true
AcqWrite(c) ==
    /\ io.procs[c].pc = "writeFile"
    /\ lk' = [lk EXCEPT !.file = [exists |-> TRUE, holder |-> c,
                                  acquiredAt |-> io.procs[c].now]]
    /\ io' = [io EXCEPT !.procs[c] = Returns(@, "true")]
    /\ UNCHANGED <<keys, nodes, now, last, cev, rm>>

InitRace ==
    /\ keys = <<>>
    /\ nodes = [id \in {} |-> NewNode(<<>>, PENDING)]
    /\ now = 1
    /\ last = NoCall
    /\ cev = NoEval
    /\ rm = NoRecovery
    /\ \E file \in {NoFile, StaleLock} : lk = [NoLocks EXCEPT !.file = file]
    /\ \E ttl \in [RaceCallers -> Ttls] :
           io = [NoIo EXCEPT !.procs = [c \in RaceCallers |-> NoProc(ttl[c])]]

NextRace ==
    \/ \E c \in RaceCallers : AcqExists(c)
    \/ \E c \in RaceCallers : AcqRead(c)
    \/ \E c \in RaceCallers : RelExists(c)
    \/ \E c \in RaceCallers : RelRead(c)
    \/ \E c \in RaceCallers : RelUnlink(c)
    \/ \E c \in RaceCallers : AcqWrite(c)
    \/ Tick

SpecRace == InitRace /\ [][NextRace]_vars

\* ---- the file-backed inbox of one agent under several writers
Writers == {"w1", "w2", "w3"}

\* the message a writer sends
MessageOf(w) == [id |-> w, status |-> "delivered"]

Unread(m) == m.status = "pending" \/ m.status = "delivered"

WritesDone == Cardinality({w \in Writers : io.procs[w].pc = "done"})

\* write(targetId, message) up to its first await: existsSync(messagePath)
WriteExists(w) ==
    /\ io.procs[w].pc = "call"
    /\ io' = [io EXCEPT !.procs[w] =
                 IF io.inbox.exists THEN [@ EXCEPT !.pc = "readFile"]
                 ELSE [@ EXCEPT !.pc = "writeFile", !.messages = <<>>]]
    /\ UNCHANGED <<keys, nodes, now, last, cev, rm, lk>>

\* write: await fs.readFile(messagePath) and JSON.parse
WriteRead(w) ==
    /\ io.procs[w].pc = "readFile"
    /\ io' = [io EXCEPT !.procs[w] =
                 [@ EXCEPT !.pc = "writeFile", !.messages = io.inbox.messages]]
    /\ UNCHANGED <<keys, nodes, now, last, cev, rm, lk>>

\* write: messages.push(message); await fs.writeFile(messagePath, messages)
WriteFile(w) ==
    /\ io.procs[w].pc = "writeFile"
    /\ io' = [io EXCEPT
                 !.inbox = [exists |-> TRUE,
                            messages |-> Append(io.procs[w].messages, MessageOf(w))],
                 !.procs[w].pc = "done"]
    /\ UNCHANGED <<keys, nodes, now, last, cev, rm, lk>>

\* read(agentId): the unread messages of the inbox; after counts the writes
\* that had returned when it was called
ReadInbox ==
    /\ io.out # [taken |-> TRUE, after |-> WritesDone,
                 messages |-> SelectSeq(io.inbox.messages, Unread)]
    /\ io' = [io EXCEPT !.out = [taken |-> TRUE, after |-> WritesDone,
                                 messages |-> SelectSeq(io.inbox.messages, Unread)]]
    /\ UNCHANGED <<keys, nodes, now, last, cev, rm, lk>>

InitInbox ==
    /\ keys = <<>>
    /\ nodes = [id \in {} |-> NewNode(<<>>, PENDING)]
    /\ now = 1
    /\ last = NoCall
    /\ cev = NoEval
    /\ rm = NoRecovery
    /\ lk = NoLocks
    /\ io = [NoIo EXCEPT !.procs = [w \in Writers |-> [pc |-> "call", messages |-> <<>>]]]

NextInbox ==
    \/ \E w \in Writers : WriteExists(w)
    \/ \E w \in Writers : WriteRead(w)
    \/ \E w \in Writers : WriteFile(w)
    \/ ReadInbox

SpecInbox == InitInbox /\ [][NextInbox]_vars

\* ---- an agent's message loop on its inbox, and a sender
\* writeMessage(agentId, message): the message is appended to the inbox
WriteMessage(inbox, message) ==
    [exists |-> TRUE, messages |-> Append(inbox.messages, message)]

\* another agent sends message number io.sent + 1
Send ==
    /\ io.sent < MaxSent
    /\ io' = [io EXCEPT
                 !.sent = @ + 1,
                 !.inbox = WriteMessage(@, [id |-> ToString(io.sent + 1),
                                            status |-> "delivered"]),
                 !.handled = [id \in DOMAIN @ \cup {ToString(io.sent + 1)} |->
                                 IF id \in DOMAIN @ THEN @[id] ELSE 0]]
    /\ UNCHANGED <<keys, nodes, now, last, cev, rm, lk>>

\* processMessages: const messages = await this.commBus.readMessages(agentId)
LoopRead ==
    /\ io.loop.pc = "readMessages"
    /\ io' = [io EXCEPT !.loop = [pc |-> "forMessage",
                                  messages |-> io.inbox.messages, i |-> 1]]
    /\ UNCHANGED <<keys, nodes, now, last, cev, rm, lk>>

\* processMessages: one round of the for loop: an unread message is handled,
\* marked read and handed to writeMessage
LoopMessage ==
    /\ io.loop.pc = "forMessage"
    /\ io.loop.i <= Len(io.loop.messages)
    /\ Len(io.inbox.messages) < MaxInbox
    /\ LET message == io.loop.messages[io.loop.i] IN
       io' = IF Unread(message)
             THEN [io EXCEPT
                      !.handled[message.id] = @ + 1,
                      !.inbox = WriteMessage(@, [message EXCEPT !.status = "read"]),
                      !.loop.i = @ + 1]
             ELSE [io EXCEPT !.loop.i = @ + 1]
    /\ UNCHANGED <<keys, nodes, now, last, cev, rm, lk>>

\* processMessages: the for loop is over; the next iteration of the while loop
\* (after a wait when there was no message)
LoopAgain ==
    /\ io.loop.pc = "forMessage"
    /\ io.loop.i > Len(io.loop.messages)
    /\ io' = [io EXCEPT !.loop = NoLoop]
    /\ UNCHANGED <<keys, nodes, now, last, cev, rm, lk>>

InitLoop ==
    /\ keys = <<>>
    /\ nodes = [id \in {} |-> NewNode(<<>>, PENDING)]
    /\ now = 1
    /\ last = NoCall
    /\ cev = NoEval
    /\ rm = NoRecovery
    /\ lk = NoLocks
    /\ io = NoIo

NextLoop ==
    \/ Send
    \/ LoopRead
    \/ LoopMessage
    \/ LoopAgain

SpecLoop == InitLoop /\ [][NextLoop]_vars

\* ---- TaskManager.updateSubtask calls in flight on the stored task list
StoredIds == {"A", "B"}

UpdaterIds == {"u1", "u2"}

\* the stored list before the calls
StoredTasks == [id \in StoredIds |-> [status |-> PENDING, startedAt |-> 0, completedAt |-> 0]]

\* updateSubtask: const subtasks = await this.getSubtasks()
UpdGetState(u) ==
    /\ io.procs[u].pc = "getState"
    /\ io' = [io EXCEPT !.procs[u] = [@ EXCEPT !.pc = "setState", !.subtasks = io.tasks]]
    /\ UNCHANGED <<keys, nodes, now, last, cev, rm, lk>>

\* the subtask after the update: the new status, and the stamps of a status
\* change
NewSubtask(oldSubtask, status, t) ==
    [status |-> status,
     startedAt |-> IF status # oldSubtask.status /\ status = IN_PROGRESS
                   THEN t ELSE oldSubtask.startedAt,
     completedAt |-> IF status # oldSubtask.status /\ status \in {COMPLETED, FAILED}
                     THEN t ELSE oldSubtask.completedAt]

\* updateSubtask: findIndex, the new subtask, await setState('subtasks', subtasks)
UpdSetState(u) ==
    /\ io.procs[u].pc = "setState"
    /\ LET pr == io.procs[u] IN
       IF pr.id \notin DOMAIN pr.subtasks
       THEN io' = [io EXCEPT !.procs[u] = [@ EXCEPT !.pc = "done", !.ret = "throw"]]
       ELSE io' = [io EXCEPT
                      !.tasks = [pr.subtasks EXCEPT
                                    ![pr.id] = NewSubtask(@, pr.status, lk.time)],
                      !.procs[u] = [@ EXCEPT !.pc = "done", !.ret = "ok"]]
    /\ UNCHANGED <<keys, nodes, now, last, cev, rm, lk>>

InitTasks ==
    /\ keys = <<>>
    /\ nodes = [id \in {} |-> NewNode(<<>>, PENDING)]
    /\ now = 1
    /\ last = NoCall
    /\ cev = NoEval
    /\ rm = NoRecovery
    /\ lk = [NoLocks EXCEPT !.time = 1]
    /\ \E id \in [UpdaterIds -> StoredIds \cup {"Z"}], st \in [UpdaterIds -> TaskStatus] :
           io = [NoIo EXCEPT
                    !.tasks = StoredTasks,
                    !.procs = [u \in UpdaterIds |->
                                  [pc |-> "getState", id |-> id[u], status |-> st[u],
                                   subtasks |-> <<>>, ret |-> "none"]]]

NextTasks ==
    \/ \E u \in UpdaterIds : UpdGetState(u)
    \/ \E u \in UpdaterIds : UpdSetState(u)

SpecTasks == InitTasks /\ [][NextTasks]_vars

\* ---- C20: liveness of the dispatch loop: for an acyclic task set in which
\* every declared dependency is a registered task and all tasks start PENDING,
\* a dispatcher that repeatedly takes any task from getReadySubtasks(), marks
\* it IN_PROGRESS and later COMPLETED, eventually reaches isAllCompleted() =
\* true; before that, getReadySubtasks() is non-empty whenever no task is
\* IN_PROGRESS.
NoneInProgress == \A t \in DOMAIN nodes : nodes[t].status # IN_PROGRESS

C20_ReadyWhileIdle ==
    (~IsAllCompleted(nodes, keys) /\ NoneInProgress) => ReadySet # {}

SortQueries == {"getExecutionOrder", "getParallelLevels"}

C21_SameSortAfterStep ==
    /\ last'.op \in SortQueries \cup {"updateStatus"} =>
           /\ GetExecutionOrder(nodes', keys') = GetExecutionOrder(nodes, keys)
           /\ GetParallelLevels(nodes', keys') = GetParallelLevels(nodes, keys)
    /\ last'.op \in SortQueries =>
           \A u \in DOMAIN nodes :
               /\ nodes'[u].indegree = nodes[u].indegree
               /\ nodes'[u].dependents = nodes[u].dependents

C22_IndegreeIsDeclared ==
    \A t \in DOMAIN nodes : nodes[t].indegree = Len(nodes[t].dependencies)

C22_IndegreeKept ==
    \A t \in DOMAIN nodes \cap DOMAIN nodes' :
        /\ nodes'[t].indegree = nodes[t].indegree
        /\ nodes'[t].dependencies = nodes[t].dependencies

C22_IndegreeFixed == []C22_IndegreeIsDeclared /\ [][C22_IndegreeKept]_vars

\* a task with one dependency completed after its dependent was added and
\* the graph was sorted
C22_Witness ==
    /\ last.op = "getExecutionOrder"
    /\ \E t \in DOMAIN nodes :
           /\ nodes[t].dependents # <<>>
           /\ nodes[t].status = COMPLETED
           /\ \E u \in DOMAIN nodes : nodes[u].indegree = 1 /\ t \in DepIds(nodes, u)

\* ---- C23: getExecutionSummary().percentage equals round(100 * (number of
\* COMPLETED tasks + number of SKIPPED tasks) / total), and 0 for an empty
\* registry; its total equals the number of registered tasks.
DoneCount == Cardinality({t \in DOMAIN nodes : nodes[t].status \in {COMPLETED, SKIPPED}})

C23_SummaryPercentage ==
    LET summary == GetExecutionSummary(nodes, keys)
        total == Cardinality(DOMAIN nodes)
    IN  /\ summary.total = total
        /\ total = 0 => summary.percentage = 0
        /\ total > 0 =>
               /\ 2 * total * summary.percentage - total <= 200 * DoneCount
               /\ 200 * DoneCount < 2 * total * summary.percentage + total

\* one task completed and one skipped out of three: 67 per cent
C23_Witness ==
    /\ Cardinality(DOMAIN nodes) = 3
    /\ \E t \in DOMAIN nodes : nodes[t].status = COMPLETED
    /\ \E t \in DOMAIN nodes : nodes[t].status = SKIPPED
    /\ GetExecutionSummary(nodes, keys).percentage = 67

\* ---- C24: getSeverity classifies an error by the keywords of its message
\* with precedence CRITICAL > HIGH > MEDIUM > LOW: CRITICAL exactly for fatal /
\* disk full / out of memory, HIGH for permission / access / security, MEDIUM
\* for timeout / rate limit, LOW for everything else.
SeverityReturned == rm.call.fn = "getSeverity" /\ ~rm.call.pending

SeverityBy(e, critical) ==
    IF e.words \cap critical # {} THEN "critical"
    ELSE IF e.words \cap {"permission denied", "access denied", "security"} # {}
    THEN "high"
    ELSE IF e.words \cap {"timeout", "rate limit"} # {} THEN "medium"
    ELSE "low"

C27_TerminalStays ==
    \A u \in DOMAIN nodes \cap DOMAIN nodes' :
        nodes[u].status \in Terminal => nodes'[u].status \in Terminal

C27_StatusMachineEnforced == [][C27_TerminalStays]_vars

\* ---- C28: in every reachable graph state, getDependents(d) contains t
\* exactly when t is a registered task that lists d among its dependencies,
\* whatever the order in which d and t were added.
C28_DependentsExact ==
    \A d \in DOMAIN nodes, t \in GraphIds :
        t \in Range(GetDependents(nodes, d)) <=>
            (t \in DOMAIN nodes /\ d \in DepIds(nodes, t))

\* ---- C29: startedAt is stamped by the first updateStatus into IN_PROGRESS
\* and is never changed by any later updateStatus (a second transition into
\* IN_PROGRESS included); completedAt is stamped by every updateStatus into
\* COMPLETED, FAILED or SKIPPED and by no other call.
C29_StampsOfStep ==
    \A u \in DOMAIN nodes \cap DOMAIN nodes' :
        LET updated == last' = [op |-> "updateStatus", id |-> u, threw |-> FALSE]
                       /\ now' = now + 1
        IN  /\ nodes'[u].startedAt =
                   IF updated /\ nodes'[u].status = IN_PROGRESS
                              /\ nodes[u].startedAt = 0
                   THEN now ELSE nodes[u].startedAt
            /\ nodes'[u].completedAt =
                   IF updated /\ nodes'[u].status \in Terminal
                   THEN now ELSE nodes[u].completedAt

C29_Timestamps == [][C29_StampsOfStep]_vars

\* a second transition into IN_PROGRESS that kept the first stamp
C29_Witness ==
    /\ last.op = "updateStatus" /\ ~last.threw
    /\ now = 3
    /\ nodes[last.id].status = IN_PROGRESS
    /\ nodes[last.id].startedAt = 1
    /\ nodes[last.id].completedAt = 0

\* ---- C30: in every reachable graph state the two cycle checks agree:
\* getExecutionOrder() (and getParallelLevels()) throws if and only if
\* detectCycle() reports hasCycle = true.
C30_CycleChecksAgree ==
    /\ GetExecutionOrder(nodes, keys).threw <=> DetectCycle(nodes, keys).hasCycle
    /\ GetParallelLevels(nodes, keys).threw <=> DetectCycle(nodes, keys).hasCycle

\* ---- C25: locks are mutually exclusive and non-reentrant: once
\* acquireLock(resource, h, ttl) has returned true, every further acquireLock
\* on the same resource, by h itself or by any other holder and with any ttl
\* argument, returns false until h releases the lock or the ttl that h
\* requested has elapsed (file bus and Valkey backend, with and without
\* Redlock).
AcquireReturns == lk'.calls = lk.calls + 1 /\ lk'.call.op = "acquireLock"

C25_RefusedWhileHeld ==
    (AcquireReturns /\ lk.owner.held /\ lk.time < lk.owner.since + lk.owner.ttl)
        => ~lk'.call.ok

C25_MutualExclusion == [][C25_RefusedWhileHeld]_vars

\* ---- C26: after the current holder calls releaseLock(resource, holder),
\* the resource is free: the next acquireLock on that resource returns true
\* without waiting for the TTL to expire (file bus, Valkey backend without
\* Redlock, and Redlock).
C26_GrantedOnceFreed == (AcquireReturns /\ lk.freed) => lk'.call.ok

C26_ReleaseFrees == [][C26_GrantedOnceFreed]_vars

\* ---- C31: the diagnostic helpers agree with the readiness gate: for every
\* dependency list and every status lookup, getDependencyBlockageReason
\* returns null iff areDependenciesReady returns true, which holds iff
\* isDependencyBlocking is false for every dependency in the list; a non-null
\* reason names the first blocking dependency in list order.
ReasonGiven == cev.fn = "getDependencyBlockageReason" /\ cev.out # "none"

BlockingAt(i) ==
    LET dep == NormalizeDependency(cev.deps[i]) IN
    IsDependencyBlocking(dep, cev.lookup[dep.taskId].status, cev.lookup[dep.taskId].result)

FirstBlocking(i) ==
    /\ BlockingAt(i) = "true"
    /\ \A j \in 1..(i - 1) : BlockingAt(j) = "false"

C31_HelpersAgree ==
    /\ ReasonGiven =>
           LET ready == AreDependenciesReady(cev.deps, cev.lookup) IN
           /\ cev.out = "null" <=> ready = "true"
           /\ ready = "true" <=> \A i \in 1..Len(cev.deps) : BlockingAt(i) = "false"
           /\ cev.out \notin {"null", "throw"} =>
                  \E i \in 1..Len(cev.deps) :
                      /\ FirstBlocking(i)
                      /\ cev.out \in {WaitingReason(cev.deps[i].taskId),
                                      ConditionReason(cev.deps[i].taskId,
                                                      ConditionOf(cev.deps[i]))}
    /\ (cev.fn = "isDependencyBlocking" /\ cev.out # "none") =>
           (cev.out = "false" <=> AreDependenciesReady(cev.deps, cev.lookup) = "true")

\* a reason that names the second dependency, the first being satisfied
C31_Witness ==
    /\ ReasonGiven
    /\ Len(cev.deps) = 2
    /\ cev.deps[1].taskId # cev.deps[2].taskId
    /\ Satisfied(cev.deps[1], cev.lookup)
    /\ cev.lookup[cev.deps[2].taskId].status = FAILED
    /\ cev.out = ConditionReason(cev.deps[2].taskId, Str("success"))

\* ---- C32: handleError never returns action retry for an error whose
\* severity is CRITICAL, whatever the retry count, the strategy and the other
\* keywords of the message: a CRITICAL error always ends in
\* manual_intervention.
C32_CriticalNeverRetried ==
    (HandleReturned /\ GetSeverity(rm.call.info.error) = "critical") =>
        /\ rm.result.type # "retry"
        /\ ~rm.result.shouldRetry
        /\ ~rm.result.threw => rm.result.type = "manual_intervention"

\* ---- C33: every task whose status is PENDING or WAITING is returned by
\* exactly one of getReadySubtasks() and getWaitingSubtasks(), and no task in
\* any other status is returned by either of them.
WaitingSet == Range(GetWaitingSubtasks(nodes, keys))

C33_ReadyWaitingPartition ==
    \A t \in DOMAIN nodes :
        IF nodes[t].status \in {PENDING, WAITING}
        THEN (t \in ReadySet) # (t \in WaitingSet)
        ELSE t \notin ReadySet /\ t \notin WaitingSet

\* ---- C34: lock release is holder-scoped: releaseLock(resource, h2) called
\* by a holder h2 that does not currently hold the lock on resource leaves the
\* lock held by its holder h1, for all distinct holder ids h1 and h2 (ids that
\* contain ':' or where one id is a prefix of the other included), and
\* isLockedBy(resource, h2) is false while h1 holds it.
\* the lock is in place: the lock file exists, or the key has not expired
LockInPlace(l) ==
    IF l.backend = "file" THEN l.file.exists ELSE Live(l.key, l.time)

LockCallReturns(op) == lk'.calls = lk.calls + 1 /\ lk'.call.op = op

C34_OthersCannotRelease ==
    (LockInPlace(lk) /\ lk.owner.held /\ lk'.call.holder # lk.owner.holder) =>
        /\ LockCallReturns("releaseLock") =>
               /\ lk'.file = lk.file
               /\ lk'.key = lk.key
               /\ lk'.owner = lk.owner
        /\ LockCallReturns("isLockedBy") => ~lk'.call.ok

C34_HolderScopedRelease == [][C34_OthersCannotRelease]_vars

\* ---- C35: when two holders call FileCommunicationBus.acquireLock
\* concurrently for the same free resource, at most one of the two calls
\* returns true, under every interleaving of their file-system steps.
C35_AtMostOneGrant ==
    (io.procs # <<>> /\ io.free /\ io.overlap) =>
        ~(\A c \in RaceCallers : io.procs[c].ret = "true")

\* ---- C36: no message is lost in a file-backed inbox: when two
\* FileCommunicationBus.write calls for the same target agent overlap, both
\* messages are in the inbox afterwards, and a sequence of n writes followed
\* by read returns n messages.
C36_NoMessageLost ==
    io.procs # <<>> =>
        /\ \A w \in Writers :
               io.procs[w].pc = "done" => MessageOf(w) \in Range(io.inbox.messages)
        /\ io.out.taken => Len(io.out.messages) >= io.out.after

\* ---- C37: an agent's message loop handles each inbox message at most once:
\* after processMessages has handled a message and recorded it as read, no
\* later iteration of the loop handles that message again, and the inbox does
\* not grow while no new message is sent.
C37_InboxKept == io'.sent = io.sent => Len(io'.inbox.messages) <= Len(io.inbox.messages)

C37_HandledOnce == \A id \in DOMAIN io.handled : io.handled[id] <= 1

C37_AtMostOnce == []C37_HandledOnce /\ [][C37_InboxKept]_vars

\* ---- C39: two overlapping TaskManager.updateSubtask calls on different
\* subtask ids both take effect: after both have completed, the task list
\* stored in the backend reflects both updates, under every interleaving of
\* their getState / setState steps.
C39_BothUpdatesStored ==
    (/\ io.procs # <<>>
     /\ \A u \in UpdaterIds : io.procs[u].pc = "done" /\ io.procs[u].ret = "ok"
     /\ io.procs["u1"].id # io.procs["u2"].id) =>
        \A u \in UpdaterIds : io.tasks[io.procs[u].id].status = io.procs[u].status

\* ---- C38: for an acyclic task list, the levels computed by
\* DAGVisualizer.calculateLevels contain every task exactly once and place each
\* task in a strictly later level than every one of its dependencies, i.e. they
\* coincide with the scheduler's getParallelLevels(); on a cyclic list the
\* computation still terminates.
LevelOf(levels, id) == CHOOSE i \in 1..Len(levels) : id \in Range(levels[i])

C38_VisualizerLevels ==
    LET levels == CalculateLevels(nodes, keys) IN
    /\ Len(levels) <= Len(keys)
    /\ (~HasDirectedCycle(nodes) /\ AllDepsRegistered(nodes)) =>
           /\ IsPermutationOf(Flatten(levels), DOMAIN nodes)
           /\ \A t \in DOMAIN nodes : \A d \in DepIds(nodes, t) :
                  LevelOf(levels, d) < LevelOf(levels, t)
           /\ ~GetParallelLevels(nodes, keys).threw =>
                  levels = GetParallelLevels(nodes, keys).value

====
